---- MODULE Spec2Model ----
(***************************************************************************)
(* A model of the anchor feature of bvedad/ckeditor5-anchor: the document *)
(* tree with its anchorId / manual decorator attributes, the document     *)
(* selection with its own attribute set, and the anchor and unanchor      *)
(* commands (refresh and execute).                                        *)
(*                                                                         *)
(* The document is root > blocks.  A block is a paragraph holding text or *)
(* an image (a block object) holding a caption with text.  Text is kept   *)
(* per character; a text node of the engine is a maximal sequence of      *)
(* characters with equal attributes, so walking nodes and walking         *)
(* characters find the same attribute runs.                               *)
(*                                                                         *)
(* A position is [blk, off]: off >= 0 is an offset inside the text of     *)
(* block blk (for an image: inside its caption), off = -1 is the root     *)
(* position before block blk (blk = Len(doc)+1: the end of the root).     *)
(* Positions are ordered by (blk, off), which is document order.          *)
(***************************************************************************)
EXTENDS Integers, Sequences, FiniteSets, TLC

VARIABLES
    doc,             \* the model document: a sequence of blocks
    sel,             \* the document selection's range [start, end]
    selAttrs,        \* the selection's own attributes
    selDirect,       \* attribute keys the selection holds with 'normal' priority
    gravity,         \* TRUE while the selection gravity is overridden
    value,           \* AnchorCommand#value
    isEnabled,       \* AnchorCommand#isEnabled
    decoratorValue,  \* ManualDecorator#value of every manual decorator
    unanchorEnabled, \* UnanchorCommand#isEnabled
    crashed,         \* TRUE once a command has thrown inside its change block
    last,            \* the last operation, with its arguments and the ui it met
    ui,              \* AnchorUI: the balloon's stack, the marker, the update listener
    flags            \* AnchorEditing: what its listeners keep from one event to the next

vars == <<doc, sel, selAttrs, selDirect, gravity, value, isEnabled,
          decoratorValue, unanchorEnabled, crashed, last, ui, flags>>

----------------------------------------------------------------------------
(* Bounds *)

\* The most characters an insertion may leave in the document.
MaxChars == 2

----------------------------------------------------------------------------
(* Attributes *)

\* getAttribute() of an attribute that is not set.
Undef == "undefined"

\* The value writer.setAttribute( item, true, range ) stores.
True == "true"

\* The manual decorators the configuration registers.
ManualDecorators == {"anchorIsExternal"}

\* Attributes a host feature owns; the commands never name them.
OtherAttrs == {"bold"}

\* The view attributes the automatic decorators contribute (the built-in
\* rule for external anchors: target and rel).  The model accepts any key
\* on a node, these as well.
AutomaticAttributes == {"target", "rel"}

AttrNames == {"anchorId"} \cup ManualDecorators \cup OtherAttrs \cup AutomaticAttributes

\* The ids the commands are called with: the empty id and a one character
\* id.  "B" is an id the loaded document already holds.
Ids == {"", "A"}

\* The characters of an id, as createText( id ) lays them out.
IdText(id) ==
    CASE id = ""  -> <<>>
      [] id = "A" -> <<"A">>
      [] id = "B" -> <<"B">>
      [] id = "//" -> <<"/", "/">>

NoAttrs == [a \in AttrNames |-> Undef]

\* node.hasAttribute( key )
HasAttribute(attrs, key) == attrs[key] # Undef

Char(c, attrs) == [ch |-> c, attrs |-> attrs]

Paragraph(text) == [type |-> "paragraph", attrs |-> NoAttrs, text |-> text]

Image(attrs, caption) == [type |-> "image", attrs |-> attrs, text |-> caption]

----------------------------------------------------------------------------
(* Schema *)

\* schema.checkAttribute( element, key ) for an element of the given type:
\* the image accepts anchorId and every manual decorator, no other element
\* accepts them.
CheckAttributeOnElement(type, key) ==
    type = "image" /\ key \in {"anchorId"} \cup ManualDecorators

\* schema.checkAttribute( textNode, key ): $text accepts anchorId and every
\* manual decorator wherever text is allowed.
CheckAttributeOnText(key) ==
    key \in {"anchorId"} \cup ManualDecorators

\* isImageAllowed( element, schema ): the element exists, is an image, and
\* the schema accepts anchorId on images.  blk = 0 stands for no element.
isImageAllowed(d, blk) ==
    /\ blk # 0
    /\ d[blk].type = "image"
    /\ CheckAttributeOnElement("image", "anchorId")

----------------------------------------------------------------------------
(* Positions and ranges *)

Pos(b, o) == [blk |-> b, off |-> o]

PosLess(p, q) == p.blk < q.blk \/ (p.blk = q.blk /\ p.off < q.off)

PosLeq(p, q) == p = q \/ PosLess(p, q)

Range(s, e) == [start |-> s, end |-> e]

\* writer.createRangeOn( element )
RangeOn(b) == Range(Pos(b, -1), Pos(b + 1, -1))

\* selection.isCollapsed
IsCollapsed(s) == s.start = s.end

\* range.containsPosition( position ): strictly inside.
ContainsPosition(r, p) == PosLess(r.start, p) /\ PosLess(p, r.end)

\* range.containsRange( other ) with loose = false.
ContainsRange(r, other) ==
    ContainsPosition(r, other.start) /\ ContainsPosition(r, other.end)

\* range.containsRange( other, true ); a collapsed range is never loose.
ContainsRangeLoose(r, other) ==
    LET loose == other.start # other.end
    IN  /\ (ContainsPosition(r, other.start) \/ (loose /\ r.start = other.start))
        /\ (ContainsPosition(r, other.end) \/ (loose /\ r.end = other.end))

\* position.isTouching( other ) for two positions of one paragraph: no
\* character lies between them.
IsTouching(p, q) == p = q

\* The text positions of a paragraph and the root positions around an
\* image: the places a selection boundary can be after the selection
\* post-fixer.
TextPositions(d) ==
    UNION {{Pos(b, o) : o \in 0..Len(d[b].text)} :
              b \in {c \in DOMAIN d : d[c].type = "paragraph"}}

ObjectPositions(d) ==
    UNION {{Pos(b, -1), Pos(b + 1, -1)} : b \in {c \in DOMAIN d : d[c].type = "image"}}

\* position.nodeBefore / position.textNode looking back: the index of the
\* character before a text position, 0 when there is none.
NodeBefore(p) == p.off

\* position.nodeAfter / position.textNode looking forward, 0 when none.
NodeAfter(d, p) == IF p.off < Len(d[p.blk].text) THEN p.off + 1 ELSE 0

\* The attributes of character i of block b, NoAttrs for i = 0 (no node).
AttrsAt(d, b, i) == IF i = 0 THEN NoAttrs ELSE d[b].text[i].attrs

Min(S) == CHOOSE x \in S : \A y \in S : x <= y

Max(S) == CHOOSE x \in S : \A y \in S : x >= y

----------------------------------------------------------------------------
(* Engine queries the commands call *)

\* _findBound( position, key, value, lookBack = true ): walk back while the
\* node before carries key with this value (undefined matches a node
\* without the key); the offset where the walk stops.
FindBoundBack(d, p, key, val) ==
    Min({s \in 0..p.off :
            \A i \in (s + 1)..p.off : d[p.blk].text[i].attrs[key] = val})

\* _findBound( position, key, value, lookBack = false )
FindBoundForward(d, p, key, val) ==
    Max({e \in p.off..Len(d[p.blk].text) :
            \A i \in (p.off + 1)..e : d[p.blk].text[i].attrs[key] = val})

\* findAttributeRange with the fault of looking forward only: the range
\* starts at the position.
findAttributeRangeForwardOnly(d, p, key, val) ==
    Range(p, Pos(p.blk, FindBoundForward(d, p, key, val)))

\* findAttributeRange( position, key, value, model )
findAttributeRange(d, p, key, val) ==
    Range(Pos(p.blk, FindBoundBack(d, p, key, val)),
          Pos(p.blk, FindBoundForward(d, p, key, val)))

\* The characters and objects a range walks over, each with the position
\* before it: what `for ( const value of range )` visits, element ends
\* left out.  An image is an object; the walk of the selection attributes
\* stops at it.
CharsInRange(d, r) ==
    UNION {{Pos(b, i) : i \in {j \in 1..Len(d[b].text) :
                                  /\ PosLeq(r.start, Pos(b, j - 1))
                                  /\ PosLeq(Pos(b, j), r.end)}} :
              b \in DOMAIN d}

ImagesInRange(d, r) ==
    {b \in DOMAIN d :
        /\ d[b].type = "image"
        /\ PosLeq(r.start, Pos(b, -1))
        /\ PosLeq(Pos(b + 1, -1), r.end)}

\* selection._getSurroundingAttributes(): of a range, the attributes of
\* its first character unless an object comes first; of a caret, the
\* attributes of the character before it (unless the gravity is
\* overridden), else of the character after it.  A paragraph holds only
\* text, so the sibling searches of steps 4 and 5 find nothing more; the
\* attributes stored in an empty paragraph are taken to be none.
SurroundingAttributes(d, s, g) ==
    IF ~IsCollapsed(s)
    THEN LET chars == {q \in CharsInRange(d, s) : d[q.blk].type = "paragraph"}
             imgs  == ImagesInRange(d, s)
             firstChar == CHOOSE q \in chars : \A q2 \in chars : PosLeq(q, q2)
         IN  IF chars = {} THEN NoAttrs
             ELSE IF \E b \in imgs : b < firstChar.blk THEN NoAttrs
             ELSE d[firstChar.blk].text[firstChar.off].attrs
    ELSE LET p == s.start
             before == NodeBefore(p)
             after  == NodeAfter(d, p)
         IN  IF ~g /\ before # 0 THEN AttrsAt(d, p.blk, before)
             ELSE AttrsAt(d, p.blk, after)

\* selection._updateAttributes( false ), run by selection.refresh() when a
\* change block ends: attributes held with 'low' priority are taken anew
\* from the surroundings, those set or removed directly stay.
RefreshAttributes(d, s, g, attrs, direct) ==
    LET around == SurroundingAttributes(d, s, g)
    IN  [k \in AttrNames |-> IF k \in direct THEN attrs[k] ELSE around[k]]

\* isBetweenDifferentAttributes( position, [ 'anchorId' ] ) of the two-step
\* caret movement the editing plugin registers anchorId with.
IsBetweenDifferentAttributes(d, p) ==
    AttrsAt(d, p.blk, NodeBefore(p))["anchorId"]
        # AttrsAt(d, p.blk, NodeAfter(d, p))["anchorId"]

\* The first selected block with the fault of reporting an image only when
\* it is the one block the selection spans.
FirstSelectedBlockWhenSole(d, s) ==
    IF s.start.off >= 0 THEN s.start.blk
    ELSE IF s.end = Pos(s.start.blk + 1, -1) THEN s.start.blk
    ELSE 0

\* first( selection.getSelectedBlocks() ): the block the range starts in,
\* or, for a range that starts at a root position, the first block whose
\* end the range walks over.  0 when there is none.
FirstSelectedBlock(d, s) ==
    IF s.start.off >= 0 THEN s.start.blk
    ELSE IF PosLeq(Pos(s.start.blk + 1, -1), s.end) THEN s.start.blk
    ELSE 0

\* The selected blocks that accept anchorId: the images whose end the
\* range walks over (a paragraph does not accept the attribute).
SelectedBlocksAccepting(d, s) ==
    {b \in ImagesInRange(d, s) : CheckAttributeOnElement(d[b].type, "anchorId")}

\* position.textNode: the position lies inside a text node, that is the
\* characters on its two sides belong to one node (equal attributes).
InTextNode(d, p) ==
    /\ p.off >= 1
    /\ p.off < Len(d[p.blk].text)
    /\ d[p.blk].text[p.off].attrs = d[p.blk].text[p.off + 1].attrs

\* range.getMinimalFlatRanges(): the part in the start block, the part at
\* root level, the part in the end block; empty parts left out.
MinimalFlatRanges(d, s) ==
    IF s.start.off >= 0 /\ s.end.off >= 0 /\ s.start.blk = s.end.blk
    THEN {s}
    ELSE LET head == IF s.start.off >= 0
                     THEN {Range(s.start, Pos(s.start.blk, Len(d[s.start.blk].text)))}
                     ELSE {}
             mid  == {Range(IF s.start.off >= 0 THEN Pos(s.start.blk + 1, -1) ELSE s.start,
                            IF s.end.off >= 0 THEN Pos(s.end.blk, -1) ELSE s.end)}
             tail == IF s.end.off >= 0
                     THEN {Range(Pos(s.end.blk, 0), s.end)}
                     ELSE {}
         IN  {r \in head \cup mid \cup tail : r.start # r.end}

\* schema._getValidRangesForRange( range, key ) of a flat range.  In text:
\* the range itself when text accepts the key.  At root level: for every
\* element first the valid ranges inside it (the text of a paragraph, the
\* text of an image's caption), then the maximal sequences of elements
\* that accept the key themselves.
ValidRangesForRange(d, r, key) ==
    IF r.start.off >= 0
    THEN IF CheckAttributeOnText(key) THEN {r} ELSE {}
    ELSE LET blocks == r.start.blk..(r.end.blk - 1)
             ok(b)  == CheckAttributeOnElement(d[b].type, key)
             inner  == {Range(Pos(b, 0), Pos(b, Len(d[b].text))) :
                           b \in {c \in blocks : Len(d[c].text) > 0
                                                 /\ CheckAttributeOnText(key)}}
             outer  == {Range(Pos(q[1], -1), Pos(q[2], -1)) :
                           q \in {w \in blocks \X ((r.start.blk + 1)..r.end.blk) :
                               /\ w[1] < w[2]
                               /\ \A b \in w[1]..(w[2] - 1) : ok(b)
                               /\ (w[1] = r.start.blk \/ ~ok(w[1] - 1))
                               /\ (w[2] = r.end.blk \/ ~ok(w[2]))}}
         IN  inner \cup outer

\* getValidRanges with the fault of handling the first flat range only.
getValidRangesFirstOnly(d, s, key) ==
    UNION {ValidRangesForRange(d, r, key) :
              r \in {f \in MinimalFlatRanges(d, s) :
                        \A g \in MinimalFlatRanges(d, s) : PosLeq(f.start, g.start)}}

\* schema.getValidRanges( selection.getRanges(), key )
getValidRanges(d, s, key) ==
    UNION {ValidRangesForRange(d, r, key) : r \in MinimalFlatRanges(d, s)}

\* checkAttributeInSelection with the fault of refusing every range.
checkAttributeInSelectionCaretOnly(d, s, key) ==
    IsCollapsed(s) /\ CheckAttributeOnText(key)

\* schema.checkAttributeInSelection( selection, key ): a caret asks about
\* text at its position; a range asks whether any item it walks over
\* accepts the key.
checkAttributeInSelection(d, s, key) ==
    IF IsCollapsed(s)
    THEN CheckAttributeOnText(key)
    ELSE \/ (CharsInRange(d, s) # {} /\ CheckAttributeOnText(key))
         \/ \E b \in ImagesInRange(d, s) : CheckAttributeOnElement(d[b].type, key)

----------------------------------------------------------------------------
(* Writer operations *)

\* writer.setAttribute( key, val, range ) on a flat range: every item
\* directly in the range gets the attribute (the walk is shallow: an
\* element's children are not touched).  val = Undef is
\* writer.removeAttribute( key, range ).
setAttribute(d, key, val, r) ==
    [b \in DOMAIN d |->
        IF r.start.off >= 0
        THEN IF b = r.start.blk
             THEN [type |-> d[b].type, attrs |-> d[b].attrs,
                   text |-> [i \in DOMAIN d[b].text |->
                               IF i > r.start.off /\ i <= r.end.off
                               THEN Char(d[b].text[i].ch,
                                         [d[b].text[i].attrs EXCEPT ![key] = val])
                               ELSE d[b].text[i]]]
             ELSE d[b]
        ELSE IF b >= r.start.blk /\ b < r.end.blk
             THEN [type |-> d[b].type,
                   attrs |-> [d[b].attrs EXCEPT ![key] = val],
                   text |-> d[b].text]
             ELSE d[b]]

\* Several keys, one after the other, over one range.
RECURSIVE SetAll(_, _, _, _)
SetAll(d, keys, val, r) ==
    IF keys = {} THEN d
    ELSE LET k == CHOOSE k \in keys : TRUE
         IN  SetAll(setAttribute(d, k, val, r), keys \ {k}, val, r)

\* model.insertContent( writer.createText( id, attributes ), position )
insertContent(d, p, id, attrs) ==
    LET t == d[p.blk].text
        new == [i \in 1..Len(IdText(id)) |-> Char(IdText(id)[i], attrs)]
    IN  [d EXCEPT ![p.blk].text =
            SubSeq(t, 1, p.off) \o new \o SubSeq(t, p.off + 1, Len(t))]

----------------------------------------------------------------------------
(* AnchorCommand and UnanchorCommand *)

\* The manualDecoratorIds argument: an object naming some of the manual
\* decorators, each with a flag.
Toggles == UNION {[S -> BOOLEAN] : S \in SUBSET ManualDecorators}

truthyManualDecorators(t) == {n \in DOMAIN t : t[n]}

falsyManualDecorators(t) == {n \in DOMAIN t : ~t[n]}

\* sequence.startsWith( prefix )
StartsWith(chars, prefix) ==
    /\ Len(chars) >= Len(prefix)
    /\ SubSeq(chars, 1, Len(prefix)) = prefix

\* EXTERNAL_LINKS_REGEXP.test( url ): /^(https?:)?\/\//
isExternal(url) ==
    \/ StartsWith(IdText(url), <<"/", "/">>)
    \/ StartsWith(IdText(url), <<"h", "t", "t", "p", ":", "/", "/">>)
    \/ StartsWith(IdText(url), <<"h", "t", "t", "p", "s", ":", "/", "/">>)

\* command.automaticDecorators with anchor.addTargetToExternalAnchors on:
\* the decorator for external anchors.
automaticDecorators ==
    {[id |-> "anchorIsExternal",
      attributes |-> [target |-> "_blank", rel |-> "noopener noreferrer"]]}

\* The callback of an automatic decorator.
Callback(decorator, url) == decorator.id = "anchorIsExternal" /\ isExternal(url)

\* What the dispatcher of the automatic decorators puts on the view
\* element of a text with this anchorId: the attributes of every decorator
\* whose callback accepts it.
RenderedAttributes(anchorId) ==
    [k \in AutomaticAttributes |->
        IF anchorId # Undef /\ \E decorator \in automaticDecorators : Callback(decorator, anchorId)
        THEN (CHOOSE decorator \in automaticDecorators : Callback(decorator, anchorId)).attributes[k]
        ELSE Undef]

\* The writer calls on a range with the fault of writing what the
\* automatic decorators render into the model as well.
UpdateRangeRendered(d, id, t, r) ==
    LET d1 == SetAll(SetAll(setAttribute(d, "anchorId", id, r),
                            truthyManualDecorators(t), True, r),
                     falsyManualDecorators(t), Undef, r)
    IN  setAttribute(setAttribute(d1, "target", RenderedAttributes(id)["target"], r),
                     "rel", RenderedAttributes(id)["rel"], r)

\* The writer calls on a range with the fault of not removing the falsy
\* decorators.
UpdateRangeNoRemoval(d, id, t, r) ==
    SetAll(setAttribute(d, "anchorId", id, r), truthyManualDecorators(t), True, r)

\* The three writer calls execute makes on a range: anchorId = id, every
\* truthy decorator = true, every falsy decorator removed.
UpdateRange(d, id, t, r) ==
    SetAll(SetAll(setAttribute(d, "anchorId", id, r),
                  truthyManualDecorators(t), True, r),
           falsyManualDecorators(t), Undef, r)

RECURSIVE UpdateRanges(_, _, _, _)
UpdateRanges(d, id, t, rs) ==
    IF rs = {} THEN d
    ELSE LET r == CHOOSE r \in rs : TRUE
         IN  UpdateRanges(UpdateRange(d, id, t, r), id, t, rs \ {r})

\* The attributes of the inserted text with the fault of starting from an
\* empty map instead of the selection's attributes.
InsertedAttributesNotCopied(attrs, id, t) ==
    [k \in AttrNames |->
        IF k = "anchorId" THEN id
        ELSE IF k \in truthyManualDecorators(t) THEN True
        ELSE Undef]

\* The attributes of the text execute inserts: the selection's, plus
\* anchorId, plus every truthy decorator.
InsertedAttributes(attrs, id, t) ==
    [k \in AttrNames |->
        IF k = "anchorId" THEN id
        ELSE IF k \in truthyManualDecorators(t) THEN True
        ELSE attrs[k]]

\* The keys removed with the fault of leaving anchorId on the selection.
KeysRemovedFromSelectionDecoratorsOnly(t) ==
    truthyManualDecorators(t) \cup falsyManualDecorators(t)

\* The keys execute removes from the selection in the collapsed case.
KeysRemovedFromSelection(t) ==
    {"anchorId"} \cup truthyManualDecorators(t) \cup falsyManualDecorators(t)

\* removeSelectionAttribute with the fault of removing nothing.
RemoveSelectionAttributesNone(attrs, keys) == attrs

\* writer.removeSelectionAttribute( key ) for every key of a set.
RemoveSelectionAttributes(attrs, keys) ==
    [k \in AttrNames |-> IF k \in keys THEN Undef ELSE attrs[k]]

\* _isRangeToUpdate with the fault of never excluding a range.
isRangeToUpdateAlways(r, allowedRanges) == TRUE

\* _isRangeToUpdate( range, allowedRanges )
isRangeToUpdate(r, allowedRanges) ==
    ~\E allowedRange \in allowedRanges : ContainsRange(allowedRange, r)

\* The ranges execute updates for a non-collapsed selection: the range on
\* every selected block that accepts anchorId, and every valid range that
\* is not inside such a block.
RangesToUpdate(d, s) ==
    LET ranges == getValidRanges(d, s, "anchorId")
        allowedRanges == {RangeOn(b) : b \in SelectedBlocksAccepting(d, s)}
    IN  allowedRanges \cup {r \in ranges : isRangeToUpdate(r, allowedRanges)}

\* The ranges UnanchorCommand.execute clears.
RangesToUnanchor(d, s, attrs) ==
    IF IsCollapsed(s)
    THEN {findAttributeRange(d, s.start, "anchorId", attrs["anchorId"])}
    ELSE getValidRanges(d, s, "anchorId")

\* The removal with the fault of leaving the manual decorators.
UnanchorRangesAnchorIdOnly(d, rs) ==
    [b \in DOMAIN d |->
        [type |-> d[b].type,
         attrs |-> IF \E r \in rs : r.start.off = -1 /\ r.start.blk <= b /\ b < r.end.blk
                   THEN [d[b].attrs EXCEPT !["anchorId"] = Undef]
                   ELSE d[b].attrs,
         text |-> [i \in DOMAIN d[b].text |->
                     IF \E r \in rs : r.start.off >= 0 /\ Pos(b, i) \in CharsInRange(d, r)
                     THEN Char(d[b].text[i].ch,
                               [d[b].text[i].attrs EXCEPT !["anchorId"] = Undef])
                     ELSE d[b].text[i]]]]

RECURSIVE UnanchorRanges(_, _)
UnanchorRanges(d, rs) ==
    IF rs = {} THEN d
    ELSE LET r == CHOOSE r \in rs : TRUE
         IN  UnanchorRanges(
                 SetAll(setAttribute(d, "anchorId", Undef, r), ManualDecorators, Undef, r),
                 rs \ {r})

\* AnchorCommand.refresh(): value
RefreshValue(d, s, attrs) ==
    LET selectedElement == FirstSelectedBlock(d, s)
    IN  IF isImageAllowed(d, selectedElement)
        THEN d[selectedElement].attrs["anchorId"]
        ELSE attrs["anchorId"]

\* AnchorCommand.refresh() and UnanchorCommand.refresh(): isEnabled
RefreshIsEnabled(d, s) ==
    LET selectedElement == FirstSelectedBlock(d, s)
    IN  IF isImageAllowed(d, selectedElement)
        THEN CheckAttributeOnElement(d[selectedElement].type, "anchorId")
        ELSE checkAttributeInSelection(d, s, "anchorId")

\* AnchorCommand._getDecoratorStateFromModel( decoratorName )
getDecoratorStateFromModel(d, s, attrs, decoratorName) ==
    LET selectedElement == FirstSelectedBlock(d, s)
    IN  IF isImageAllowed(d, selectedElement)
        THEN d[selectedElement].attrs[decoratorName]
        ELSE attrs[decoratorName]

\* restoreManualDecoratorStates() with the fault of restoring nothing.
restoreManualDecoratorStatesNone(d, s, attrs) == decoratorValue

\* AnchorCommand.restoreManualDecoratorStates()
restoreManualDecoratorStates(d, s, attrs) ==
    [n \in ManualDecorators |-> getDecoratorStateFromModel(d, s, attrs, n)]

\* The commands refresh on every change of the document or the selection.
Refreshed(d, s, attrs) ==
    /\ value' = RefreshValue(d, s, attrs)
    /\ isEnabled' = RefreshIsEnabled(d, s)
    /\ unanchorEnabled' = RefreshIsEnabled(d, s)
    /\ decoratorValue' =
           [n \in ManualDecorators |-> getDecoratorStateFromModel(d, s, attrs, n)]

----------------------------------------------------------------------------
(* AnchorUI: the contextual balloon with actionsView and formView *)

\* The ui state: the views in the balloon's stack, bottom first (the last
\* one is the visible view); whether the 'anchor-ui' marker exists; whether
\* the update listeners are registered; whether the balloon has thrown
\* (adding a view it holds, removing a view it does not hold); the command
\* value the form's input was filled from when the form was added; whether
\* the image's figure holds an <a> element in the editing view.
HiddenUI ==
    [stack |-> <<>>, marker |-> FALSE, updating |-> FALSE, error |-> FALSE,
     openedOn |-> Undef, imageAnchor |-> FALSE]

\* this._balloon.hasView( view )
HasView(u, view) == \E i \in DOMAIN u.stack : u.stack[i] = view

\* this._balloon.visibleView
VisibleView(u) == IF u.stack = <<>> THEN "none" ELSE u.stack[Len(u.stack)]

isFormInPanel(u) == HasView(u, "formView")

areActionsInPanel(u) == HasView(u, "actionsView")

areActionsVisible(u) == VisibleView(u) = "actionsView"

isUIInPanel(u) == isFormInPanel(u) \/ areActionsInPanel(u)

isUIVisible(u) == VisibleView(u) = "formView" \/ areActionsVisible(u)

\* this._balloon.add( { view } ): throws when the balloon holds the view.
\* After a throw the rest of the handler does not run.
BalloonAdd(u, view) ==
    IF u.error THEN u
    ELSE IF HasView(u, view) THEN [u EXCEPT !.error = TRUE]
    ELSE [u EXCEPT !.stack = Append(@, view)]

\* this._balloon.remove( view ): throws when the balloon lacks the view.
BalloonRemove(u, view) ==
    IF u.error THEN u
    ELSE IF ~HasView(u, view) THEN [u EXCEPT !.error = TRUE]
    ELSE [u EXCEPT !.stack = SelectSeq(@, LAMBDA v : v # view)]

addActionsView(u) ==
    IF u.error \/ areActionsInPanel(u) THEN u ELSE BalloonAdd(u, "actionsView")

\* _addFormView() with the fault of adding nothing.
addFormViewNever(u, commandValue) == u

\* _addFormView() with the fault of not returning when the form is in the
\* panel.
addFormViewUnguarded(u, commandValue) ==
    IF u.error THEN u
    ELSE [BalloonAdd(u, "formView") EXCEPT !.openedOn = commandValue]

\* _addFormView(), given the anchor command's value: the input is filled
\* from it.
addFormView(u, commandValue) ==
    IF u.error \/ isFormInPanel(u) THEN u
    ELSE [BalloonAdd(u, "formView") EXCEPT !.openedOn = commandValue]

\* _showFakeVisualSelection() with the fault of adding no marker.
showFakeVisualSelectionNone(u) == u

showFakeVisualSelection(u) == IF u.error THEN u ELSE [u EXCEPT !.marker = TRUE]

\* _hideFakeVisualSelection() with the fault of leaving the marker.
hideFakeVisualSelectionNone(u) == u

hideFakeVisualSelection(u) == IF u.error THEN u ELSE [u EXCEPT !.marker = FALSE]

\* _removeFormView() with the fault of leaving the marker.
removeFormViewKeepingMarker(u) ==
    IF u.error \/ ~isFormInPanel(u) THEN u
    ELSE [BalloonRemove(u, "formView") EXCEPT !.openedOn = Undef]

removeFormView(u) ==
    IF u.error \/ ~isFormInPanel(u) THEN u
    ELSE hideFakeVisualSelection(
             [BalloonRemove(u, "formView") EXCEPT !.openedOn = Undef])

startUpdatingUI(u) == IF u.error THEN u ELSE [u EXCEPT !.updating = TRUE]

\* _hideUI() with the fault of removing the form only.
hideUIFormOnly(u) == removeFormView(u)

\* _hideUI(): stop listening, remove the form, remove the actions, remove
\* the marker.
hideUI(u) ==
    IF u.error \/ ~isUIInPanel(u) THEN u
    ELSE hideFakeVisualSelection(
             BalloonRemove(removeFormView([u EXCEPT !.updating = FALSE]), "actionsView"))

\* _closeFormView() with the fault of never looking at the command's
\* value: the form alone is removed; the whole ui is hidden.
closeFormViewAlwaysRemove(u, commandValue) == removeFormView(u)

closeFormViewAlwaysHide(u, commandValue) == hideUI(u)

\* _closeFormView(), given the anchor command's value.
closeFormView(u, commandValue) ==
    IF commandValue # Undef THEN removeFormView(u) ELSE hideUI(u)

\* _showUI() with the fault of taking the branch for no selected anchor
\* always.
showUIAlwaysForm(u, selectedAnchor, commandValue) ==
    startUpdatingUI(
        addFormView(addActionsView(showFakeVisualSelection(u)), commandValue))

\* _showUI( forceVisible ), given whether an anchor element is under the
\* selection.  The balloon has the one stack 'main', so showStack changes
\* nothing.
showUI(u, selectedAnchor, commandValue) ==
    startUpdatingUI(
        IF ~selectedAnchor
        THEN addFormView(addActionsView(showFakeVisualSelection(u)), commandValue)
        ELSE IF areActionsVisible(u) THEN addFormView(u, commandValue)
        ELSE addActionsView(u))

\* _getSelectedAnchorElement(): is there an anchor element under the view
\* selection.  A caret is rendered inside an anchor element exactly when
\* the model selection carries anchorId.  A range has one when it lies in
\* one paragraph and covers exactly one anchor element: the characters in
\* it carry one anchorId and the same manual decorators, and the
\* characters next to it do not continue that element.  An image's anchor
\* is not an attribute element: a selected image has none.
getSelectedAnchorElement(d, s, attrs) ==
    IF IsCollapsed(s) THEN HasAttribute(attrs, "anchorId")
    ELSE /\ s.start.off >= 0 /\ s.end.off >= 0 /\ s.start.blk = s.end.blk
         /\ LET t == d[s.start.blk].text
                same(i, j) == \A k \in {"anchorId"} \cup ManualDecorators :
                                  t[i].attrs[k] = t[j].attrs[k]
                first == s.start.off + 1
            IN  /\ HasAttribute(t[first].attrs, "anchorId")
                /\ \A i \in first..s.end.off : same(first, i)
                /\ s.start.off > 0 => ~same(first, s.start.off)
                /\ s.end.off < Len(t) => ~same(first, s.end.off + 1)

\* getSelectionParent() of _startUpdatingUI: the closest element around
\* the view selection's focus.  The focus of a range lies in the block the
\* range ends in (in the root for a range that ends after an image), or,
\* when the range ends between two characters of one text node with
\* attributes, in the attribute element around that text.  A caret whose
\* selection carries attributes sits in the attribute element made for
\* them.
getSelectionParent(d, s, attrs) ==
    IF IsCollapsed(s)
    THEN IF attrs # NoAttrs THEN <<s.end.blk, attrs>> ELSE <<s.end.blk>>
    ELSE IF s.end.off = -1 THEN <<0>>
    ELSE LET t == d[s.end.blk].text
             k == s.end.off
         IN  IF k > 0 /\ k < Len(t) /\ t[k].attrs = t[k + 1].attrs /\ t[k].attrs # NoAttrs
             THEN <<s.end.blk, t[k].attrs>>
             ELSE <<s.end.blk>>

\* downcastImageAnchor: the converter for a change of an image's anchorId.
\* With an <a> in the figure the id is rewritten, or the <a> removed when
\* the new value is empty; a figure without an <a> gets one.
downcastImageAnchor(anchorInImage, attributeNewValue) ==
    IF anchorInImage THEN attributeNewValue \notin {Undef, ""} ELSE TRUE

\* isImageAnchored( view selection's selected element ) of AnchorImageUI
isImageAnchored(d, s, u) ==
    /\ \E b \in DOMAIN d : d[b].type = "image" /\ s = RangeOn(b)
    /\ u.imageAnchor

\* The update listener with the fault of not looking at the selection's
\* parent.
updateAnchorOnly(u, prevSelectedAnchor, prevSelectionParent, selectedAnchor, selectionParent) ==
    IF u.error \/ ~u.updating THEN u
    ELSE IF prevSelectedAnchor /\ ~selectedAnchor THEN hideUI(u)
    ELSE u

\* The update listener with the fault of never hiding.
updateNeverHiding(u, prevSelectedAnchor, prevSelectionParent, selectedAnchor, selectionParent) == u

\* The update listener with the fault of showing the actions whenever an
\* anchor element is under the selection and no view is in the panel.
updateShowing(u, prevSelectedAnchor, prevSelectionParent, selectedAnchor, selectionParent) ==
    IF ~u.error /\ selectedAnchor /\ u.stack = <<>>
    THEN startUpdatingUI(addActionsView(u))
    ELSE u

\* The update listener of _startUpdatingUI, run on ui#update and on the
\* balloon's change:visibleView: hide when the selection left the anchor
\* element, or when no anchor was selected and the selection's parent
\* changed; else only the position is updated.
update(u, prevSelectedAnchor, prevSelectionParent, selectedAnchor, selectionParent) ==
    IF u.error \/ ~u.updating THEN u
    ELSE IF \/ (prevSelectedAnchor /\ ~selectedAnchor)
            \/ (~prevSelectedAnchor /\ selectionParent # prevSelectionParent)
         THEN hideUI(u)
         ELSE u

----------------------------------------------------------------------------
(* Initial state *)

Attrs(anchorId, decorator, bold) ==
    [k \in AttrNames |->
        CASE k = "anchorId" -> anchorId
          [] k = "bold" -> bold
          [] k \in ManualDecorators -> decorator
          [] OTHER -> Undef]

\* The documents the editor is loaded with:
\*   a paragraph with a run "A" of two text nodes (one bold) and a run "B",
\*     followed by an empty paragraph,
\*   a paragraph with one bold character,
\*   an image with a caption followed by a paragraph.
InitDocs ==
    {<<Paragraph(<<Char("x", Attrs("A", Undef, True)),
                   Char("x", Attrs("A", Undef, Undef)),
                   Char("x", Attrs("B", Undef, Undef))>>),
       Paragraph(<<>>)>>,
     <<Paragraph(<<Char("x", Attrs(Undef, Undef, True))>>)>>,
     <<Image(NoAttrs, <<Char("x", NoAttrs)>>),
       Paragraph(<<Char("x", NoAttrs)>>)>>}

\* The first paragraph of a document: where the selection is when the
\* editor starts.
FirstParagraph(d) == Min({b \in DOMAIN d : d[b].type = "paragraph"})

Caret(p) == Range(p, p)

RECURSIVE CharsUpTo(_, _)
CharsUpTo(d, b) == IF b = 0 THEN 0 ELSE Len(d[b].text) + CharsUpTo(d, b - 1)

\* The number of characters the document holds.
TotalChars(d) == CharsUpTo(d, Len(d))

\* No operation on record.
NoOp == [op |-> "none", id |-> "", t |-> <<>>]

\* The history of calls is not kept.
Untracked == [op |-> "untracked", id |-> "", t |-> <<>>]

\* The name and arguments of the operation before the one recorded, kept
\* (where the history is kept at all) when it is a call of
\* AnchorCommand.execute.
Prev ==
    IF last.prev = Untracked THEN Untracked
    ELSE IF last.op = "anchor" THEN [op |-> last.op, id |-> last.id, t |-> last.t]
    ELSE NoOp

\* What the record of a selection change or an unanchor call keeps of the
\* operation before it.
PrevDropped == IF last.prev = Untracked THEN Untracked ELSE NoOp

\* The record of an operation: its name and arguments, the branch it took,
\* the selection it was called with, and the operation before it.
Op(op, id, t, branch) ==
    [op |-> op, id |-> id, t |-> t, branch |-> branch, at |-> sel, prev |-> Prev,
     from |-> ui]

\* What the listeners of AnchorEditing keep between events, as the plugin
\* starts: `clicked` of _enableClickingAfterAnchor; `deletedContent` and
\* `selectionAttributes` of _enableTypingOverAnchor (captured tells whether
\* selectionAttributes holds attributes); `hasBackspacePressed` of
\* _handleDeleteContentAfterAnchor.  Its `shouldPreserveAttributes` is
\* written by every deleteContent before it is read, so it is kept with
\* the event only.
NoFlags ==
    [clicked |-> FALSE,
     deletedContent |-> FALSE,
     captured |-> FALSE,
     selectionAttributes |-> NoAttrs,
     hasBackspacePressed |-> FALSE]

\* The state after the editor has loaded one of the documents: the caret
\* at the start of the first paragraph, the commands refreshed.
InitFrom(docs, history) ==
    /\ doc \in docs
    /\ sel = Caret(Pos(FirstParagraph(doc), 0))
    /\ gravity = FALSE
    /\ selDirect = {}
    /\ selAttrs = SurroundingAttributes(doc, sel, gravity)
    /\ value = RefreshValue(doc, sel, selAttrs)
    /\ isEnabled = RefreshIsEnabled(doc, sel)
    /\ unanchorEnabled = RefreshIsEnabled(doc, sel)
    /\ decoratorValue =
           [n \in ManualDecorators |-> getDecoratorStateFromModel(doc, sel, selAttrs, n)]
    /\ crashed = FALSE
    /\ ui = [HiddenUI EXCEPT !.imageAnchor =
                 \E b \in DOMAIN doc : /\ doc[b].type = "image"
                                       /\ HasAttribute(doc[b].attrs, "anchorId")]
    /\ last = [op |-> "init", id |-> "", t |-> <<>>, branch |-> "", at |-> sel,
               prev |-> history, from |-> ui]
    /\ flags = NoFlags

Init == InitFrom(InitDocs, Untracked)

\* The documents of the runs that look at two calls in a row: an empty
\* paragraph, a paragraph with a one character run, and the image with a
\* caption followed by a paragraph.
InitDocsTwice ==
    {<<Paragraph(<<>>)>>,
     <<Paragraph(<<Char("x", Attrs("A", Undef, Undef))>>)>>,
     <<Image(NoAttrs, <<Char("x", NoAttrs)>>),
       Paragraph(<<Char("x", NoAttrs)>>)>>}

InitTwice == InitFrom(InitDocsTwice, NoOp)

----------------------------------------------------------------------------
(* Actions *)

\* The selections the user or a program can make: a caret in a paragraph,
\* or a range that starts in text or before an image and ends in text or
\* after an image.
Selections(d) ==
    {Caret(p) : p \in TextPositions(d)} \cup
    {r \in [start : TextPositions(d) \cup {Pos(b, -1) : b \in {c \in DOMAIN d : d[c].type = "image"}},
            end : TextPositions(d) \cup {Pos(b + 1, -1) : b \in {c \in DOMAIN d : d[c].type = "image"}}] :
        PosLess(r.start, r.end)}

\* A selection change (caret movement, click, writer.setSelection by a
\* program): selection.setTo() takes the attributes anew from the
\* surroundings and forgets what was set or removed directly.  The
\* two-step caret movement may leave the gravity overridden for a caret
\* at an anchorId boundary.
SetSelection(s, g) ==
    /\ ~crashed
    /\ g => (IsCollapsed(s) /\ IsBetweenDifferentAttributes(doc, s.start))
    /\ sel' = s
    /\ gravity' = g
    /\ selDirect' = {}
    /\ selAttrs' = SurroundingAttributes(doc, s, g)
    /\ Refreshed(doc, s, selAttrs')
    /\ last' = [op |-> "select", id |-> "", t |-> <<>>, branch |-> "", at |-> s,
                prev |-> PrevDropped, from |-> ui]
    /\ UNCHANGED <<doc, crashed>>

\* AnchorCommand.execute( id, manualDecoratorIds ), collapsed selection
\* inside text with anchorId: the whole run is updated and the caret is
\* put after `anchorRange.end.nodeBefore`.  nodeBefore is null when the
\* position is inside a text node (the updated run merged with the text
\* after it) or at offset 0; createPositionAfter( null ) then throws and
\* the change block is left after the attribute operations were applied.
ExecuteUpdate(id, t) ==
    LET position == sel.start
        anchorRange == findAttributeRange(doc, position, "anchorId", selAttrs["anchorId"])
        d1 == UpdateRange(doc, id, t, anchorRange)
        throws == anchorRange.end.off = 0 \/ InTextNode(d1, anchorRange.end)
        s1 == Caret(anchorRange.end)
        g1 == IF s1 = sel THEN gravity ELSE FALSE
        a1 == SurroundingAttributes(d1, s1, g1)
        keys == KeysRemovedFromSelection(t)
        a2 == RemoveSelectionAttributes(a1, keys)
    IN  /\ doc' = d1
        /\ IF throws
           THEN /\ crashed' = TRUE
                /\ last' = Op("anchor", id, t, "throw")
                /\ UNCHANGED <<sel, selAttrs, selDirect, gravity, value, isEnabled,
                               decoratorValue, unanchorEnabled>>
           ELSE /\ sel' = s1
                /\ gravity' = g1
                /\ selDirect' = keys
                /\ selAttrs' = RefreshAttributes(d1, s1, g1, a2, keys)
                /\ Refreshed(d1, s1, selAttrs')
                /\ last' = Op("anchor", id, t, "update")
                /\ UNCHANGED crashed

\* Collapsed selection without anchorId, non-empty id: a text with the id
\* as its data is inserted at the caret and the caret is put after it.
ExecuteInsert(id, t) ==
    LET position == sel.start
        attributes == InsertedAttributes(selAttrs, id, t)
        d1 == insertContent(doc, position, id, attributes)
        positionAfter == Pos(position.blk, position.off + Len(IdText(id)))
        s1 == Caret(positionAfter)
        g1 == gravity /\ IsBetweenDifferentAttributes(d1, positionAfter)
        a1 == SurroundingAttributes(d1, s1, g1)
        keys == KeysRemovedFromSelection(t)
        a2 == RemoveSelectionAttributes(a1, keys)
    IN  /\ TotalChars(doc) + Len(IdText(id)) <= MaxChars
        /\ doc' = d1
        /\ sel' = s1
        /\ gravity' = g1
        /\ selDirect' = keys
        /\ selAttrs' = RefreshAttributes(d1, s1, g1, a2, keys)
        /\ Refreshed(d1, s1, selAttrs')
        /\ last' = Op("anchor", id, t, "insert")
        /\ UNCHANGED crashed

\* The empty-id case with the fault of taking the update branch although
\* the selection carries no anchorId.
ExecuteNoInsertUpdating(id, t) == ExecuteUpdate(id, t)

\* Collapsed selection without anchorId, empty id: nothing is inserted;
\* the keys are still removed from the selection.
ExecuteNoInsert(id, t) ==
    LET keys == KeysRemovedFromSelection(t)
        a2 == RemoveSelectionAttributes(selAttrs, keys)
    IN  /\ selDirect' = selDirect \cup keys
        /\ selAttrs' = RefreshAttributes(doc, sel, gravity, a2, selDirect')
        /\ Refreshed(doc, sel, selAttrs')
        /\ last' = Op("anchor", id, t, "noinsert")
        /\ UNCHANGED <<doc, sel, gravity, crashed>>

\* Non-collapsed selection: the attribute is changed on the ranges to
\* update; the selection's range stays.
ExecuteRanges(id, t) ==
    LET d1 == UpdateRanges(doc, id, t, RangesToUpdate(doc, sel))
    IN  /\ doc' = d1
        /\ selAttrs' = RefreshAttributes(d1, sel, gravity, selAttrs, selDirect)
        /\ Refreshed(d1, sel, selAttrs')
        /\ last' = Op("anchor", id, t, "ranges")
        /\ UNCHANGED <<sel, selDirect, gravity, crashed>>

\* AnchorCommand.execute( id, manualDecoratorIds ).  A command that is not
\* enabled does not execute.
AnchorExecute(id, t) ==
    /\ ~crashed
    /\ isEnabled
    /\ IF IsCollapsed(sel)
       THEN IF HasAttribute(selAttrs, "anchorId") THEN ExecuteUpdate(id, t)
            ELSE IF id # "" THEN ExecuteInsert(id, t)
            ELSE ExecuteNoInsert(id, t)
       ELSE ExecuteRanges(id, t)

\* UnanchorCommand.execute()
UnanchorExecute ==
    LET d1 == UnanchorRanges(doc, RangesToUnanchor(doc, sel, selAttrs))
    IN  /\ ~crashed
        /\ unanchorEnabled
        /\ doc' = d1
        /\ selAttrs' = RefreshAttributes(d1, sel, gravity, selAttrs, selDirect)
        /\ Refreshed(d1, sel, selAttrs')
        /\ last' = [Op("unanchor", "", <<>>, IF IsCollapsed(sel) THEN "run" ELSE "ranges")
                       EXCEPT !.prev = PrevDropped]
        /\ UNCHANGED <<sel, selDirect, gravity, crashed>>

\* The commands and the selection driven by a program, no user interface
\* shown.
Next ==
    \/ \E s \in Selections(doc), g \in BOOLEAN : SetSelection(s, g) /\ UNCHANGED <<ui, flags>>
    \/ \E id \in Ids, t \in Toggles : AnchorExecute(id, t) /\ UNCHANGED <<ui, flags>>
    \/ UnanchorExecute /\ UNCHANGED <<ui, flags>>

Spec == Init /\ [][Next]_vars

\* The same program with the history of calls kept.
SpecTwice == InitTwice /\ [][Next]_vars

\* The documents of the runs with an external id: an empty paragraph and
\* a paragraph with a one character run of another id.
InitDocsAutomatic ==
    {<<Paragraph(<<>>)>>,
     <<Paragraph(<<Char("x", Attrs("A", Undef, Undef))>>)>>}

InitAutomatic == InitFrom(InitDocsAutomatic, Untracked)

\* The ids of those runs: one the rule for external anchors accepts, one
\* it does not.
IdsAutomatic == {"//", "A"}

NextAutomatic ==
    \/ \E s \in Selections(doc), g \in BOOLEAN : SetSelection(s, g) /\ UNCHANGED <<ui, flags>>
    \/ \E id \in IdsAutomatic, t \in Toggles : AnchorExecute(id, t) /\ UNCHANGED <<ui, flags>>
    \/ UnanchorExecute /\ UNCHANGED <<ui, flags>>

\* The commands called with an id the automatic decorator applies to.
SpecAutomatic == InitAutomatic /\ [][NextAutomatic]_vars

----------------------------------------------------------------------------
(* The editor with its user interface *)

\* The documents of the runs with the user interface: a paragraph with a
\* two character run and a one character run; an anchored image followed
\* by a paragraph with one character.
InitDocsUI ==
    {<<Paragraph(<<Char("x", Attrs("A", Undef, Undef)),
                   Char("x", Attrs("A", Undef, Undef)),
                   Char("x", Attrs("B", Undef, Undef))>>)>>,
     <<Image(Attrs("A", Undef, Undef), <<>>),
       Paragraph(<<Char("x", NoAttrs)>>)>>}

InitUI == InitFrom(InitDocsUI, Untracked)

CoreVars == <<doc, sel, selAttrs, selDirect, gravity, value, isEnabled,
              decoratorValue, unanchorEnabled, crashed>>

\* All of them but the manual decorators' values, which the form's switch
\* buttons and _closeFormView set.
ModelVars == <<doc, sel, selAttrs, selDirect, gravity, value, isEnabled,
               unanchorEnabled, crashed>>

\* The anchor element under the selection and the selection's parent, as
\* the listeners see them before and after a step.
SelectedAnchor == getSelectedAnchorElement(doc, sel, selAttrs)

SelectionParent == getSelectionParent(doc, sel, selAttrs)

SelectedAnchorAfter == getSelectedAnchorElement(doc', sel', selAttrs')

SelectionParentAfter == getSelectionParent(doc', sel', selAttrs')

\* The editing view after a step: the image's anchorId is converted when
\* it changed.
Converted(u) ==
    IF \E b \in DOMAIN doc : doc[b].type = "image" /\ doc'[b].attrs # doc[b].attrs
    THEN LET b == CHOOSE c \in DOMAIN doc : doc[c].type = "image"
         IN  IF doc'[b].attrs.anchorId = doc[b].attrs.anchorId THEN u
             ELSE [u EXCEPT !.imageAnchor =
                      downcastImageAnchor(@, doc'[b].attrs.anchorId)]
    ELSE u

\* The view is rendered after a change of the model and ui#update fires.
\* A command that threw leaves its change block: nothing is rendered.
Rendered(u) ==
    IF crashed' THEN u
    ELSE update(Converted(u), SelectedAnchor, SelectionParent,
                SelectedAnchorAfter, SelectionParentAfter)

\* A handler that executes no command: the ui it leaves and its record.
Handled(name, u) ==
    /\ ui' = u
    /\ last' = [op |-> name, id |-> "", t |-> <<>>, branch |-> "", at |-> sel,
                prev |-> PrevDropped, from |-> ui]

\* A selection change made by a program or by the keyboard, the gravity
\* not overridden.
Select(s) == SetSelection(s, FALSE) /\ ui' = Rendered(ui)

\* removeAnchorAttributesFromSelection: anchorId and every manual decorator
AnchorAttributes == {"anchorId"} \cup ManualDecorators

\* The test of the click listener with the fault of looking at the end of
\* the run only.
ClickedAtBoundaryEndOnly(d, s, attrs) ==
    /\ IsCollapsed(s)
    /\ HasAttribute(attrs, "anchorId")
    /\ s.start = findAttributeRange(d, s.start, "anchorId", attrs["anchorId"]).end

\* _enableClickingAfterAnchor: after a click that leaves a caret with
\* anchorId at the start or the end of its run, the anchor attributes are
\* removed from the selection.
ClickedAtBoundary(d, s, attrs) ==
    /\ IsCollapsed(s)
    /\ HasAttribute(attrs, "anchorId")
    /\ LET anchorRange == findAttributeRange(d, s.start, "anchorId", attrs["anchorId"])
       IN  s.start = anchorRange.start \/ s.start = anchorRange.end

\* A pointer click in the editing root that leaves the selection s.  The
\* mousedown is outside the balloon: the click-outside handler hides the
\* ui that is in the panel.  Then the selection changes, the view is
\* rendered, and the click listener shows the ui when an anchor element is
\* under the selection.
Click(s) ==
    LET a1 == SurroundingAttributes(doc, s, FALSE)
        touching == ClickedAtBoundary(doc, s, a1)
        u1 == hideUI(ui)
    IN  /\ ~crashed
        /\ sel' = s
        /\ gravity' = FALSE
        /\ selDirect' = IF touching THEN AnchorAttributes ELSE {}
        /\ selAttrs' = IF touching THEN RemoveSelectionAttributes(a1, AnchorAttributes)
                       ELSE a1
        /\ Refreshed(doc, s, selAttrs')
        /\ last' = [op |-> "click", id |-> "", t |-> <<>>, branch |-> "", at |-> s,
                    prev |-> PrevDropped, from |-> ui]
        /\ UNCHANGED <<doc, crashed>>
        /\ ui' = IF SelectedAnchorAfter
                 THEN showUI(Rendered(u1), TRUE, value')
                 ELSE Rendered(u1)

\* The anchor keystroke in the editing root, or the toolbar button
\* activated from the keyboard: _showUI( true ) when the command is
\* enabled.
Keystroke ==
    /\ ~crashed
    /\ isEnabled
    /\ UNCHANGED CoreVars
    /\ Handled("keystroke", showUI(ui, SelectedAnchor, value))

\* The toolbar button pressed with the pointer: the mousedown is outside
\* the balloon, then the button executes.
ToolbarButton ==
    /\ ~crashed
    /\ isEnabled
    /\ UNCHANGED CoreVars
    /\ Handled("toolbar", showUI(hideUI(ui), SelectedAnchor, value))

\* The anchorImage button of AnchorImageUI, offered for a selected image.
AnchorImageButton ==
    /\ ~crashed
    /\ isEnabled
    /\ \E b \in DOMAIN doc : doc[b].type = "image" /\ sel = RangeOn(b)
    /\ UNCHANGED CoreVars
    /\ Handled("anchorImage",
               IF isImageAnchored(doc, sel, ui) THEN addActionsView(ui)
               ELSE showUI(ui, SelectedAnchor, value))

\* actionsView 'edit' (the button is bound to the anchor command) and the
\* anchor keystroke while the actions have the focus.
ActionsEdit ==
    /\ ~crashed
    /\ areActionsVisible(ui)
    /\ isEnabled
    /\ UNCHANGED CoreVars
    /\ Handled("edit", addFormView(ui, value))

ActionsKeystroke ==
    /\ ~crashed
    /\ areActionsVisible(ui)
    /\ UNCHANGED CoreVars
    /\ Handled("actionsKeystroke", addFormView(ui, value))

\* actionsView 'unanchor' (the button is bound to the unanchor command)
ActionsUnanchor ==
    /\ areActionsVisible(ui)
    /\ UnanchorExecute
    /\ ui' = hideUI(Rendered(ui))

\* Esc while the actions have the focus; Esc in the editing root while the
\* ui is visible; a mousedown outside the balloon and the editing root.
ActionsEsc ==
    /\ ~crashed
    /\ areActionsVisible(ui)
    /\ UNCHANGED CoreVars
    /\ Handled("actionsEsc", hideUI(ui))

EditorEsc ==
    /\ ~crashed
    /\ isUIVisible(ui)
    /\ UNCHANGED CoreVars
    /\ Handled("esc", hideUI(ui))

ClickOutside ==
    /\ ~crashed
    /\ isUIInPanel(ui)
    /\ UNCHANGED CoreVars
    /\ Handled("clickOutside", hideUI(ui))

\* What is submitted through the form in the runs with the user
\* interface: one id, the decorator switches off.
FormIds == {"A"}

FormSwitches == [ManualDecorators -> {FALSE}]

\* The switch button's isOn, which the form reports on submit.
getDecoratorSwitchesState == [n \in ManualDecorators |-> decoratorValue[n] = True]

\* formView 'submit' with the id typed into the input and the state of the
\* decorator switches.  No anchor.defaultProtocol is configured, so the id
\* is passed as typed.  editor.execute() does nothing for a disabled
\* command.
FormSubmit(id, t) ==
    /\ ~crashed
    /\ VisibleView(ui) = "formView"
    /\ IF isEnabled THEN AnchorExecute(id, t)
       ELSE /\ UNCHANGED ModelVars
            /\ decoratorValue' = restoreManualDecoratorStates(doc, sel, selAttrs)
            /\ last' = [Op("anchor", id, t, "disabled") EXCEPT !.prev = PrevDropped]
    /\ ui' = IF crashed' THEN ui ELSE closeFormView(Rendered(ui), value')

\* formView 'cancel', and Esc while the form has the focus:
\* _closeFormView() restores the manual decorators' values and closes.
\* The record keeps the values the switch buttons had.
FormCancel(name) ==
    /\ ~crashed
    /\ VisibleView(ui) = "formView"
    /\ UNCHANGED ModelVars
    /\ decoratorValue' = restoreManualDecoratorStates(doc, sel, selAttrs)
    /\ ui' = closeFormView(ui, value)
    /\ last' = [op |-> name, id |-> "", t |-> getDecoratorSwitchesState, branch |-> "", at |-> sel,
                prev |-> PrevDropped, from |-> ui]

NextUI ==
    \/ \E s \in Selections(doc) : Select(s) /\ UNCHANGED flags
    \/ \E s \in Selections(doc) : Click(s) /\ UNCHANGED flags
    \/ Keystroke /\ UNCHANGED flags
    \/ ToolbarButton /\ UNCHANGED flags
    \/ AnchorImageButton /\ UNCHANGED flags
    \/ ActionsEdit /\ UNCHANGED flags
    \/ ActionsKeystroke /\ UNCHANGED flags
    \/ ActionsUnanchor /\ UNCHANGED flags
    \/ ActionsEsc /\ UNCHANGED flags
    \/ EditorEsc /\ UNCHANGED flags
    \/ ClickOutside /\ UNCHANGED flags
    \/ \E id \in FormIds, t \in FormSwitches : FormSubmit(id, t) /\ UNCHANGED flags
    \/ \E name \in {"cancel", "formEsc"} : FormCancel(name) /\ UNCHANGED flags

SpecUI == InitUI /\ [][NextUI]_vars

----------------------------------------------------------------------------
(* The form's switch buttons *)

\* The value a switch button leaves in a manual decorator that was on.
False == "false"

\* The documents of the runs with the switch buttons: a paragraph with a
\* decorated one character run; a decorated anchored image followed by an
\* empty paragraph.
InitDocsForm ==
    {<<Paragraph(<<Char("x", Attrs("A", True, Undef))>>)>>,
     <<Image(Attrs("A", True, Undef), <<>>), Paragraph(<<>>)>>}

InitForm == InitFrom(InitDocsForm, Untracked)

\* A switch button of the form is pressed: the decorator's value is negated.
FormToggle(n) ==
    /\ ~crashed
    /\ VisibleView(ui) = "formView"
    /\ decoratorValue' = [decoratorValue EXCEPT ![n] = IF @ = True THEN False ELSE True]
    /\ UNCHANGED <<ModelVars, ui>>
    /\ last' = [op |-> "toggle", id |-> "", t |-> getDecoratorSwitchesState, branch |-> "",
                at |-> sel, prev |-> PrevDropped, from |-> ui]

NextForm ==
    \/ \E s \in Selections(doc) : Select(s) /\ UNCHANGED flags
    \/ \E s \in Selections(doc) : Click(s) /\ UNCHANGED flags
    \/ Keystroke /\ UNCHANGED flags
    \/ ToolbarButton /\ UNCHANGED flags
    \/ AnchorImageButton /\ UNCHANGED flags
    \/ ActionsEdit /\ UNCHANGED flags
    \/ ActionsKeystroke /\ UNCHANGED flags
    \/ ActionsUnanchor /\ UNCHANGED flags
    \/ ActionsEsc /\ UNCHANGED flags
    \/ EditorEsc /\ UNCHANGED flags
    \/ ClickOutside /\ UNCHANGED flags
    \/ \E n \in ManualDecorators : FormToggle(n) /\ UNCHANGED flags
    \/ \E id \in FormIds : FormSubmit(id, getDecoratorSwitchesState) /\ UNCHANGED flags
    \/ \E name \in {"cancel", "formEsc"} : FormCancel(name) /\ UNCHANGED flags

SpecForm == InitForm /\ [][NextForm]_vars

----------------------------------------------------------------------------
(* Typing, deleting and pasting: the listeners of AnchorEditing *)

\* position.nodeBefore: the character that ends at the position, 0 when
\* the position is at the start of its paragraph or inside a text node.
PositionNodeBefore(d, p) == IF p.off = 0 \/ InTextNode(d, p) THEN 0 ELSE p.off

\* position.nodeAfter
PositionNodeAfter(d, p) ==
    IF p.off = Len(d[p.blk].text) \/ InTextNode(d, p) THEN 0 ELSE p.off + 1

\* Characters i..j of a paragraph belong to one text node.
SameNode(d, b, i, j) == \A k \in i..j : d[b].text[k].attrs = d[b].text[i].attrs

\* What the handlers of one event work on: the document, the document
\* selection with its attributes, the listeners' flags, the event's
\* value of shouldPreserveAttributes, and whether a change was enqueued to
\* run after the current change block.
Editor ==
    [doc |-> doc, sel |-> sel, attrs |-> selAttrs, direct |-> selDirect,
     gravity |-> gravity, flags |-> flags, shouldPreserveAttributes |-> FALSE,
     enqueued |-> FALSE]

\* removeAnchorAttributesFromSelection( writer, manualDecorators )
removeAnchorAttributesFromSelection(e) ==
    [e EXCEPT !.attrs = RemoveSelectionAttributes(@, AnchorAttributes),
              !.direct = @ \cup AnchorAttributes]

\* An operation was applied: the document is d and the selection's live
\* range is s.  The two-step caret movement restores the gravity on a
\* range change unless the caret is still between different anchorIds.
applyOperation(e, d, s) ==
    [e EXCEPT !.doc = d,
              !.sel = s,
              !.gravity = IF s = e.sel THEN @
                          ELSE @ /\ IsCollapsed(s) /\ IsBetweenDifferentAttributes(d, s.start)]

\* writer.setSelection( position ): selection.setTo() takes the attributes
\* anew; a range that does not change fires no change:range.
setSelection(e, p) ==
    LET g == IF Caret(p) = e.sel THEN e.gravity ELSE FALSE
    IN  [e EXCEPT !.sel = Caret(p),
                  !.gravity = g,
                  !.direct = {},
                  !.attrs = SurroundingAttributes(e.doc, Caret(p), g)]

\* The end of a change block: selection.refresh(), then the change that
\* was enqueued meanwhile runs in a block of its own.
endChangeBlock(e) ==
    LET r == [e EXCEPT !.attrs = RefreshAttributes(e.doc, e.sel, e.gravity, e.attrs, e.direct)]
    IN  IF e.enqueued
        THEN [removeAnchorAttributesFromSelection(r) EXCEPT !.enqueued = FALSE]
        ELSE r

\* shouldCopyAttributes( model ) for a range inside one paragraph
shouldCopyAttributes(d, s) ==
    LET firstPosition == s.start
        lastPosition == s.end
        b == firstPosition.blk
        nodeAtFirstPosition == PositionNodeAfter(d, firstPosition)
        anchorId == AttrsAt(d, b, nodeAtFirstPosition)["anchorId"]
        anchorRange == findAttributeRange(d, firstPosition, "anchorId", anchorId)
    IN  /\ nodeAtFirstPosition # 0
        /\ anchorId # Undef
        /\ \/ SameNode(d, b, nodeAtFirstPosition, lastPosition.off)
           \/ ContainsRangeLoose(anchorRange, s)

\* The listener of model 'deleteContent' with the fault of capturing
\* whatever the key and the batch.
typeOverOnDeleteContentAlways(e, typing) ==
    IF ~IsCollapsed(e.sel) /\ shouldCopyAttributes(e.doc, e.sel)
    THEN [e EXCEPT !.flags.deletedContent = FALSE,
                   !.flags.captured = TRUE,
                   !.flags.selectionAttributes = e.attrs]
    ELSE e

\* _enableTypingOverAnchor, the listener of model 'deleteContent'
typeOverOnDeleteContent(e, typing) ==
    IF IsCollapsed(e.sel) THEN e
    ELSE IF e.flags.deletedContent THEN [e EXCEPT !.flags.deletedContent = FALSE]
    ELSE IF ~typing THEN e
    ELSE IF shouldCopyAttributes(e.doc, e.sel)
         THEN [e EXCEPT !.flags.captured = TRUE, !.flags.selectionAttributes = e.attrs]
    ELSE e

\* The listener of model 'insertContent' with the fault of leaving the
\* inserted element as it is.
typeOverOnInsertContentIgnored(e, typing, element) ==
    [editor |-> [e EXCEPT !.flags.deletedContent = FALSE,
                          !.flags.captured = FALSE,
                          !.flags.selectionAttributes = NoAttrs],
     element |-> element]

\* _enableTypingOverAnchor, the listener of model 'insertContent': the
\* attributes of the element once the captured ones are set on it, and
\* the flags.
typeOverOnInsertContent(e, typing, element) ==
    LET e1 == [e EXCEPT !.flags.deletedContent = FALSE]
    IN  IF typing /\ e.flags.captured
        THEN [editor |-> [e1 EXCEPT !.flags.captured = FALSE,
                                    !.flags.selectionAttributes = NoAttrs],
              element |-> [k \in AttrNames |->
                              IF e.flags.selectionAttributes[k] # Undef
                              THEN e.flags.selectionAttributes[k]
                              ELSE element[k]]]
        ELSE [editor |-> e1, element |-> element]

\* _handleDeleteContentAfterAnchor, the high priority listener of model
\* 'deleteContent'.  `!anchorId` holds for the empty string too.
preserveOnDeleteContent(e) ==
    LET position == e.sel.start
        anchorId == e.attrs["anchorId"]
        anchorRange == findAttributeRange(e.doc, position, "anchorId", anchorId)
    IN  [e EXCEPT !.shouldPreserveAttributes =
            /\ anchorId \notin {Undef, ""}
            /\ (ContainsPosition(anchorRange, position) \/ anchorRange.end = position)]

\* The low priority listener with the fault of never enqueueing.
clearAfterDeleteContentNever(e) == [e EXCEPT !.flags.hasBackspacePressed = FALSE]

\* The low priority listener with the fault of removing the attributes
\* at once, inside the listener, instead of enqueueing the change.
clearAfterDeleteContentAtOnce(e) ==
    IF ~e.flags.hasBackspacePressed THEN e
    ELSE IF e.shouldPreserveAttributes
         THEN [e EXCEPT !.flags.hasBackspacePressed = FALSE]
    ELSE removeAnchorAttributesFromSelection([e EXCEPT !.flags.hasBackspacePressed = FALSE])

\* _handleDeleteContentAfterAnchor, the low priority listener
clearAfterDeleteContent(e) ==
    IF ~e.flags.hasBackspacePressed THEN e
    ELSE IF e.shouldPreserveAttributes
         THEN [e EXCEPT !.flags.hasBackspacePressed = FALSE]
    ELSE [e EXCEPT !.flags.hasBackspacePressed = FALSE, !.enqueued = TRUE]

\* writer.remove( range ) inside one paragraph
removeContent(d, r) ==
    [d EXCEPT ![r.start.blk].text =
        SubSeq(@, 1, r.start.off) \o SubSeq(@, r.end.off + 1, Len(@))]

\* A live position after the removal of r.
MovedByRemoval(p, r) ==
    IF p.blk # r.start.blk \/ p.off <= r.start.off THEN p
    ELSE IF p.off <= r.end.off THEN r.start
    ELSE Pos(p.blk, p.off - (r.end.off - r.start.off))

\* model.deleteContent( selection ) with its listeners: `target` is the
\* range of the selection passed, documentSelection tells whether that is
\* the document selection or a copy of it, typing whether the batch is one
\* of the Input plugin.  Nothing is removed for a collapsed selection.
deleteContent(e, target, documentSelection, typing) ==
    LET e1 == preserveOnDeleteContent(typeOverOnDeleteContent(e, typing))
        d1 == removeContent(e1.doc, target)
        s1 == Range(MovedByRemoval(e1.sel.start, target), MovedByRemoval(e1.sel.end, target))
        e2 == IF IsCollapsed(target) THEN e1
              ELSE IF documentSelection
                   THEN setSelection(applyOperation(e1, d1, s1), target.start)
              ELSE applyOperation(e1, d1, s1)
    IN  clearAfterDeleteContent(e2)

\* The post-insert fixer with the fault of looking at the selection only.
fixSelectionAfterInsertContentAlways(e) ==
    IF HasAttribute(e.attrs, "anchorId") THEN removeAnchorAttributesFromSelection(e) ELSE e

\* _enableInsertContentSelectionAttributesFixer, the low priority listener
\* of model 'insertContent'
fixSelectionAfterInsertContent(e) ==
    LET p == e.sel.start
        before == PositionNodeBefore(e.doc, p)
        after == PositionNodeAfter(e.doc, p)
    IN  IF ~HasAttribute(e.attrs, "anchorId") THEN e
        ELSE IF before = 0 THEN e
        ELSE IF ~HasAttribute(AttrsAt(e.doc, p.blk, before), "anchorId") THEN e
        ELSE IF after # 0 /\ HasAttribute(AttrsAt(e.doc, p.blk, after), "anchorId") THEN e
        ELSE removeAnchorAttributesFromSelection(e)

\* model.insertContent( text, selection ) with its listeners, for a text
\* of one character with the attributes `element`, at the caret the
\* document selection is at.  The document selection is set after the
\* text when it is the selection passed; a copy leaves it to its live
\* range, which the insertion moves after the text as well.
insertTextContent(e, element, documentSelection, typing) ==
    LET h == typeOverOnInsertContent(e, typing, element)
        p == e.sel.start
        t == h.editor.doc[p.blk].text
        d1 == [h.editor.doc EXCEPT ![p.blk].text =
                  SubSeq(t, 1, p.off) \o <<Char("x", h.element)>> \o SubSeq(t, p.off + 1, Len(t))]
        after == Pos(p.blk, p.off + 1)
        e1 == applyOperation(h.editor, d1, Caret(after))
        e2 == IF documentSelection THEN setSelection(e1, after) ELSE e1
    IN  fixSelectionAfterInsertContent(e2)

\* The documents of the runs with typing: a paragraph with plain text
\* before a decorated run, a paragraph with a run of two text nodes, a
\* paragraph with a run of the empty id (as execute( '' ) leaves it); each
\* followed by an empty paragraph, so that no selection inside the first
\* paragraph holds the whole content.
InitDocsTyping ==
    {<<Paragraph(<<Char("x", NoAttrs), Char("x", Attrs("A", True, Undef))>>),
       Paragraph(<<>>)>>,
     <<Paragraph(<<Char("x", Attrs("A", Undef, True)),
                   Char("x", Attrs("A", Undef, Undef))>>),
       Paragraph(<<>>)>>,
     <<Paragraph(<<Char("x", Attrs("", Undef, Undef)),
                   Char("x", Attrs("", Undef, Undef))>>),
       Paragraph(<<>>)>>}

InitTyping == InitFrom(InitDocsTyping, Untracked)

\* The selections made while typing: inside one paragraph.
SelectionsTyping(d) ==
    {s \in Selections(d) : s.start.off >= 0 /\ s.end.off >= 0 /\ s.start.blk = s.end.blk}

\* The record of an editing step: its name and kind, the selection it
\* met and the anchorId that selection carried (of a selection change:
\* the selection made).
Edited(op, branch) ==
    [op |-> op, id |-> "", t |-> <<>>, branch |-> branch, at |-> sel,
     prev |-> PrevDropped, from |-> ui, carried |-> selAttrs["anchorId"]]

\* The handlers of one user event are done: the editor is as e says and
\* the commands are refreshed.
Done(e, record) ==
    /\ doc' = e.doc
    /\ sel' = e.sel
    /\ selAttrs' = e.attrs
    /\ selDirect' = e.direct
    /\ gravity' = e.gravity
    /\ flags' = e.flags
    /\ Refreshed(e.doc, e.sel, e.attrs)
    /\ last' = record
    /\ UNCHANGED <<crashed, ui>>

\* A character is typed.  On keydown the Input plugin deletes a
\* non-collapsed document selection in its typing batch; then the
\* InputCommand runs with the range of the insertion: deleteContent with
\* a collapsed copy of the selection, insertContent of a text with the
\* document selection's attributes, writer.setSelection after the text.
TypeCharacter ==
    LET e1 == IF IsCollapsed(sel) THEN Editor
              ELSE endChangeBlock(deleteContent(Editor, sel, TRUE, TRUE))
        e2 == deleteContent(e1, e1.sel, FALSE, TRUE)
        e3 == insertTextContent(e2, e2.attrs, FALSE, TRUE)
        e4 == endChangeBlock(setSelection(e3, e3.sel.start))
    IN  /\ ~crashed
        /\ sel \in SelectionsTyping(doc)
        /\ TotalChars(e1.doc) + 1 <= MaxChars + 1
        /\ Done(e4, Edited("type", IF IsCollapsed(sel) THEN "caret" ELSE "over"))

\* The unit a collapsed selection is extended by in the direction of the
\* delete key; collapsed still when there is nothing in that direction.
modifySelection(d, s, direction) ==
    IF ~IsCollapsed(s) THEN s
    ELSE IF direction = "backward"
         THEN (IF s.start.off > 0 THEN Range(Pos(s.start.blk, s.start.off - 1), s.start) ELSE s)
    ELSE (IF s.start.off < Len(d[s.start.blk].text)
          THEN Range(s.start, Pos(s.start.blk, s.start.off + 1)) ELSE s)

\* Backspace or Delete is pressed: the listeners of view 'delete' set
\* their flags, then the DeleteCommand runs on a copy of the selection,
\* extended by a character when collapsed.  With nothing to delete the
\* command returns before deleteContent.  A press that would merge two
\* blocks is left out.
DeleteKey(direction) ==
    LET e0 == [Editor EXCEPT !.flags.deletedContent = TRUE,
                             !.flags.hasBackspacePressed = (direction = "backward")]
        target == modifySelection(doc, sel, direction)
        e1 == deleteContent(e0, target, FALSE, FALSE)
        e2 == endChangeBlock(setSelection(e1, target.start))
    IN  /\ ~crashed
        /\ sel \in SelectionsTyping(doc)
        /\ IsCollapsed(target) =>
              IF direction = "backward" THEN sel.start = Pos(1, 0)
              ELSE sel.start.blk = Len(doc)
        /\ IF IsCollapsed(target)
           THEN Done(e0, Edited("delete", direction))
           ELSE Done(e2, Edited("delete", direction))

\* A text of one character with the given anchorId is pasted at the
\* caret: insertContent with the document selection, in a batch that is
\* not a typing one.
Paste(anchorId) ==
    LET element == Attrs(anchorId, Undef, Undef)
        e1 == endChangeBlock(insertTextContent(Editor, element, TRUE, FALSE))
    IN  /\ ~crashed
        /\ sel \in SelectionsTyping(doc)
        /\ IsCollapsed(sel)
        /\ TotalChars(doc) + 1 <= MaxChars + 1
        /\ Done(e1, Edited("paste", ""))

\* The selected text is cut: deleteContent with the document selection,
\* in a batch that is not a typing one.
Cut ==
    LET e1 == endChangeBlock(deleteContent(Editor, sel, TRUE, FALSE))
    IN  /\ ~crashed
        /\ sel \in SelectionsTyping(doc)
        /\ ~IsCollapsed(sel)
        /\ Done(e1, Edited("cut", ""))

\* A mousedown in the editing root that changes no selection.
MouseDown ==
    /\ ~crashed
    /\ flags' = [flags EXCEPT !.clicked = TRUE]
    /\ last' = Edited("mousedown", "")
    /\ UNCHANGED <<CoreVars, ui>>

\* The listener of view 'selectionChange' of _enableClickingAfterAnchor,
\* met after the model selection was set.
fixSelectionAfterClick(e) ==
    IF ~e.flags.clicked THEN e
    ELSE LET e1 == [e EXCEPT !.flags.clicked = FALSE]
         IN  IF ClickedAtBoundary(e.doc, e.sel, e.attrs)
             THEN removeAnchorAttributesFromSelection(e1)
             ELSE e1

\* The view selection changes to s, by the pointer (after its mousedown)
\* or by the keyboard: the model selection is set, then the listener
\* runs.
SelectionChange(s, pointer) ==
    LET e0 == [Editor EXCEPT !.flags.clicked = @ \/ pointer]
        e1 == [e0 EXCEPT !.sel = s, !.gravity = FALSE, !.direct = {},
                         !.attrs = SurroundingAttributes(doc, s, FALSE)]
        e2 == endChangeBlock(fixSelectionAfterClick(e1))
    IN  /\ ~crashed
        /\ s # sel
        /\ Done(e2, [Edited(IF pointer THEN "click" ELSE "selectionChange", "")
                         EXCEPT !.at = s, !.carried = Undef])

\* The two-step caret movement leaves the caret at an anchorId boundary
\* with the gravity overridden; no view selectionChange is fired.
OverrideGravity(s) ==
    /\ IsCollapsed(s)
    /\ SetSelection(s, TRUE)
    /\ UNCHANGED <<ui, flags>>

NextTyping ==
    \/ TypeCharacter
    \/ \E direction \in {"backward", "forward"} : DeleteKey(direction)
    \/ \E anchorId \in {Undef, "A"} : Paste(anchorId)
    \/ Cut
    \/ \E s \in SelectionsTyping(doc) : SelectionChange(s, FALSE)
    \/ \E s \in SelectionsTyping(doc) : OverrideGravity(s)

SpecTyping == InitTyping /\ [][NextTyping]_vars

\* A key that types nothing is pressed over a selection (a dead key, an
\* input method key whose composition is abandoned): on keydown the Input
\* plugin deletes the selection in its typing batch, and no insertContent
\* follows.
KeydownWithoutText ==
    LET e1 == endChangeBlock(deleteContent(Editor, sel, TRUE, TRUE))
    IN  /\ ~crashed
        /\ sel \in SelectionsTyping(doc)
        /\ ~IsCollapsed(sel)
        /\ Done(e1, Edited("keydown", ""))

\* The editor with typing and with keys that type nothing.
NextComposing ==
    \/ NextTyping
    \/ KeydownWithoutText

SpecComposing == InitTyping /\ [][NextComposing]_vars

\* The documents of the runs with the commands and typing together: a
\* paragraph with a decorated run, a paragraph with plain text; each
\* followed by an empty paragraph.
InitDocsEditing ==
    {<<Paragraph(<<Char("x", Attrs("A", True, Undef))>>), Paragraph(<<>>)>>,
     <<Paragraph(<<Char("x", NoAttrs)>>), Paragraph(<<>>)>>}

\* The two commands called by a program while the user types.
NextEditing ==
    \/ \E s \in SelectionsTyping(doc), g \in BOOLEAN : SetSelection(s, g) /\ UNCHANGED <<ui, flags>>
    \/ \E t \in Toggles : AnchorExecute("A", t) /\ UNCHANGED <<ui, flags>>
    \/ UnanchorExecute /\ UNCHANGED <<ui, flags>>
    \/ TypeCharacter

SpecEditing == InitFrom(InitDocsEditing, Untracked) /\ [][NextEditing]_vars

\* The editor with the pointer and the caret keys only.
NextClicking ==
    \/ MouseDown
    \/ \E s \in SelectionsTyping(doc), pointer \in BOOLEAN : SelectionChange(s, pointer)
    \/ \E s \in SelectionsTyping(doc) : OverrideGravity(s)

SpecClicking == InitFrom(InitDocs \cup InitDocsTyping, Untracked) /\ [][NextClicking]_vars

----------------------------------------------------------------------------
(* Properties *)

\* Two documents have the same blocks with texts of the same lengths.
SameShape(d, e) ==
    /\ Len(d) = Len(e)
    /\ \A b \in DOMAIN d : d[b].type = e[b].type /\ Len(d[b].text) = Len(e[b].text)

\* Character i of block b belongs to the maximal run of characters with
\* anchorId = v that touches offset o: every character between it and the
\* offset carries v.
InRunAt(d, b, o, v, i) ==
    \/ (i <= o /\ \A j \in i..o : d[b].text[j].attrs["anchorId"] = v)
    \/ (i > o /\ \A j \in (o + 1)..i : d[b].text[j].attrs["anchorId"] = v)

\* The step is AnchorCommand.execute called with a caret.
AnchorStepCollapsed == last'.op = "anchor" /\ IsCollapsed(sel)

\* C1: execute( V ) with a collapsed selection that carries anchorId sets
\* anchorId = V on every character of the maximal run around the caret that
\* has the selection's anchorId value, before and after the caret alike;
\* the anchorId of every other character and of every element is as it
\* was, and no character is added or removed.
C1_UpdatesWholeRun ==
    [][(AnchorStepCollapsed /\ HasAttribute(selAttrs, "anchorId")) =>
        /\ SameShape(doc, doc')
        /\ \A b \in DOMAIN doc :
            /\ doc'[b].attrs = doc[b].attrs
            /\ \A i \in DOMAIN doc[b].text :
                 doc'[b].text[i].attrs["anchorId"] =
                    IF b = sel.start.blk
                       /\ InRunAt(doc, b, sel.start.off, selAttrs["anchorId"], i)
                    THEN last'.id
                    ELSE doc[b].text[i].attrs["anchorId"]]_vars

\* C1 witness: the caret was strictly inside a run, the whole run now
\* carries the new id, and the run after it carries another id.
C1_Witness ==
    /\ last.op = "anchor" /\ last.branch = "update"
    /\ IsCollapsed(last.at)
    /\ 0 < last.at.start.off /\ last.at.start.off < sel.start.off
    /\ \A i \in 1..sel.start.off :
           doc[sel.start.blk].text[i].attrs["anchorId"] = last.id
    /\ sel.start.off < Len(doc[sel.start.blk].text)
    /\ doc[sel.start.blk].text[sel.start.off + 1].attrs["anchorId"] \notin {Undef, last.id}

AnchorStepRanges == last'.op = "anchor" /\ ~IsCollapsed(sel)

\* Every attribute that is neither anchorId nor named in the toggles t is
\* the same in d and e, on every element and every character.
OtherAttributesKept(d, e, t) ==
    \A b \in DOMAIN d :
        \A k \in AttrNames \ ({"anchorId"} \cup DOMAIN t) :
            /\ e[b].attrs[k] = d[b].attrs[k]
            /\ \A i \in DOMAIN d[b].text : e[b].text[i].attrs[k] = d[b].text[i].attrs[k]

\* Everything outside the range s is the same in d and e: the paragraph
\* elements, the images and the characters the range does not walk over.
OutsideKept(d, e, s) ==
    \A b \in DOMAIN d :
        /\ b \notin ImagesInRange(d, s) => e[b].attrs = d[b].attrs
        /\ \A i \in DOMAIN d[b].text :
             Pos(b, i) \notin CharsInRange(d, s) => e[b].text[i] = d[b].text[i]

\* The nodes directly in a flat range: its characters when it lies in
\* text, its elements when it lies at root level.
ElementsOf(r) == IF r.start.off >= 0 THEN {} ELSE r.start.blk..(r.end.blk - 1)

CharsOf(d, r) == IF r.start.off >= 0 THEN CharsInRange(d, r) ELSE {}

\* C3 (amended): execute( V, toggles ) with a non-collapsed selection sets
\* anchorId = V on every character of paragraph text in the selection and on
\* every image in the selection, that is on every schema-valid sub-range
\* that does not lie inside a selected block that accepts anchorId itself;
\* it changes no attribute other than anchorId and the names in toggles,
\* adds and removes no node, and leaves what is outside the selection as it
\* was.
C3_UpdatesValidRanges ==
    [][AnchorStepRanges =>
        /\ SameShape(doc, doc')
        /\ \A q \in CharsInRange(doc, sel) :
             doc[q.blk].type = "paragraph" =>
                doc'[q.blk].text[q.off].attrs["anchorId"] = last'.id
        /\ \A b \in ImagesInRange(doc, sel) : doc'[b].attrs["anchorId"] = last'.id
        /\ OtherAttributesKept(doc, doc', last'.t)
        /\ OutsideKept(doc, doc', sel)]_vars

\* C3 witness: the selection held a bold and a plain character; both carry
\* the id now, the bold one is still bold, the plain one is not, and the
\* character after the selection kept another anchorId.
C3_Witness ==
    /\ last.op = "anchor" /\ last.branch = "ranges"
    /\ last.at = Range(Pos(1, 0), Pos(1, 2))
    /\ Len(doc[1].text) = 3
    /\ doc[1].text[1].attrs["anchorId"] = last.id
    /\ doc[1].text[2].attrs["anchorId"] = last.id
    /\ doc[1].text[1].attrs["bold"] = True
    /\ doc[1].text[2].attrs["bold"] = Undef
    /\ doc[1].text[3].attrs["anchorId"] \notin {Undef, last.id}

\* C3 as stated: anchorId = V on every node of every schema-valid sub-range
\* of the selection.
C3_AsStated ==
    [][AnchorStepRanges =>
        \A r \in getValidRanges(doc, sel, "anchorId") :
            /\ \A q \in CharsOf(doc, r) :
                 doc'[q.blk].text[q.off].attrs["anchorId"] = last'.id
            /\ \A b \in ElementsOf(r) : doc'[b].attrs["anchorId"] = last'.id]_vars

\* C4: when the selection contains an image (a block that accepts anchorId
\* itself), execute( V ) sets anchorId = V on the image and leaves every
\* node inside it as it was; no valid range inside the range on the image
\* is among the ranges that are updated.
C4_ImageNotItsContent ==
    [][AnchorStepRanges =>
        \A b \in ImagesInRange(doc, sel) :
            /\ doc'[b].attrs["anchorId"] = last'.id
            /\ doc'[b].text = doc[b].text
            /\ \A r \in getValidRanges(doc, sel, "anchorId") :
                 ContainsRange(RangeOn(b), r) => r \notin RangesToUpdate(doc, sel)]_vars

\* C4 witness: the selection ran over an image with a caption and into the
\* paragraph after it; the image and the paragraph's character carry the
\* id, the caption's character carries no anchorId.
C4_Witness ==
    /\ last.op = "anchor" /\ last.branch = "ranges"
    /\ \E b \in ImagesInRange(doc, last.at) :
         /\ doc[b].attrs["anchorId"] = last.id
         /\ Len(doc[b].text) > 0
         /\ \A i \in DOMAIN doc[b].text : ~HasAttribute(doc[b].text[i].attrs, "anchorId")
         /\ \E q \in CharsInRange(doc, last.at) :
              /\ q.blk > b
              /\ doc[q.blk].text[q.off].attrs["anchorId"] = last.id

\* C5 as stated: after execute with a caret, whatever the branch and the
\* toggles, the selection carries neither anchorId nor any registered
\* manual decorator.  (The step on which execute throws is left out: the
\* call did not return.)
C5_AsStated ==
    [][(AnchorStepCollapsed /\ ~crashed') =>
        /\ ~HasAttribute(selAttrs', "anchorId")
        /\ \A n \in ManualDecorators : ~HasAttribute(selAttrs', n)]_vars

\* C6: execute with a caret that carries no anchorId and with the empty id
\* inserts nothing: the document, content and attributes, is the same
\* before and after the call, and the caret stays.
C6_EmptyIdInsertsNothing ==
    [][(AnchorStepCollapsed /\ ~HasAttribute(selAttrs, "anchorId") /\ last'.id = "") =>
        /\ doc' = doc
        /\ sel' = sel]_vars

\* C6 witness: execute with the empty id and a true toggle ran with a caret
\* next to text without anchorId; the text still has no anchorId and no
\* decorator.
C6_Witness ==
    /\ last.op = "anchor" /\ last.branch = "noinsert" /\ last.id = ""
    /\ "anchorIsExternal" \in DOMAIN last.t /\ last.t["anchorIsExternal"]
    /\ sel = last.at
    /\ sel.start.off > 0
    /\ doc[sel.start.blk].text[sel.start.off].attrs["anchorId"] = Undef
    /\ doc[sel.start.blk].text[sel.start.off].attrs["anchorIsExternal"] = Undef

\* The step is UnanchorCommand.execute.
UnanchorStep == last'.op = "unanchor"

\* The attributes of a node the unanchor command has cleared.
Cleared(attrs) ==
    [k \in AttrNames |->
        IF k \in {"anchorId"} \cup ManualDecorators THEN Undef ELSE attrs[k]]

\* C7: UnanchorCommand.execute removes anchorId and every manual decorator:
\* with a caret, from every character of the run around the caret that has
\* the selection's anchorId value; with a range, from every character and
\* every image the range walks over (captions of those images included).
\* Every other attribute of those nodes and everything else in the
\* document is as it was.
C7_UnanchorClears ==
    [][UnanchorStep =>
        /\ SameShape(doc, doc')
        /\ \A b \in DOMAIN doc :
            /\ doc'[b].attrs =
                  IF ~IsCollapsed(sel) /\ b \in ImagesInRange(doc, sel)
                  THEN Cleared(doc[b].attrs) ELSE doc[b].attrs
            /\ \A i \in DOMAIN doc[b].text :
                 /\ doc'[b].text[i].ch = doc[b].text[i].ch
                 /\ doc'[b].text[i].attrs =
                      IF \/ /\ IsCollapsed(sel)
                            /\ b = sel.start.blk
                            /\ InRunAt(doc, b, sel.start.off, selAttrs["anchorId"], i)
                         \/ /\ ~IsCollapsed(sel)
                            /\ Pos(b, i) \in CharsInRange(doc, sel)
                      THEN Cleared(doc[b].text[i].attrs)
                      ELSE doc[b].text[i].attrs]_vars

\* C7 witness: unanchor ran with a caret inside the first run of a three
\* character paragraph; both characters of the run lost anchorId, the first
\* is still bold, and the run after it kept its anchorId.
C7_Witness ==
    /\ last.op = "unanchor" /\ last.branch = "run"
    /\ last.at = Caret(Pos(1, 1))
    /\ Len(doc[1].text) = 3
    /\ doc[1].text[1].attrs["anchorId"] = Undef
    /\ doc[1].text[2].attrs["anchorId"] = Undef
    /\ doc[1].text[1].attrs["bold"] = True
    /\ HasAttribute(doc[1].text[3].attrs, "anchorId")

\* C8 (amended): after refresh the unanchor command is enabled exactly when
\* the schema allows anchorId at the selection: always for a caret in text,
\* and for a range when it walks over a character or an image.  Whether
\* anchorId is present plays no part.
C8_EnabledIffAllowed ==
    unanchorEnabled <=>
        \/ IsCollapsed(sel)
        \/ CharsInRange(doc, sel) # {}
        \/ ImagesInRange(doc, sel) # {}

\* C8 witness: the unanchor command has run, no node and not the selection
\* carries anchorId any more, and the command is still enabled.
C8_Witness ==
    /\ last.op = "unanchor"
    /\ unanchorEnabled
    /\ ~HasAttribute(selAttrs, "anchorId")
    /\ \A b \in DOMAIN doc :
         /\ ~HasAttribute(doc[b].attrs, "anchorId")
         /\ \A i \in DOMAIN doc[b].text : ~HasAttribute(doc[b].text[i].attrs, "anchorId")

\* C8 as stated: enabled if and only if anchorId is present on the
\* selection, or on the selected image when one is selected.
C8_AsStated ==
    last.op # "init" =>
        (unanchorEnabled <=>
            IF sel.start.off = -1
            THEN HasAttribute(doc[sel.start.blk].attrs, "anchorId")
            ELSE HasAttribute(selAttrs, "anchorId"))

\* C9 (amended): after refresh, value and the value of every manual
\* decorator are read from an image's attributes whenever the selection
\* starts on that image (the image is the first selected block), also when
\* the selection extends over further blocks; in every other selection
\* state they are the selection's own attributes.
C9_ReadsFirstSelectedImage ==
    LET source == IF sel.start.off = -1 THEN doc[sel.start.blk].attrs ELSE selAttrs
    IN  /\ value = source["anchorId"]
        /\ \A n \in ManualDecorators : decoratorValue[n] = source[n]

\* C9 witness: the selection starts on an image and ends in the paragraph
\* after it; value is the image's anchorId, which the selection's own
\* attributes do not have.
C9_Witness ==
    /\ sel.start.off = -1
    /\ sel.end.off > 0
    /\ doc[sel.start.blk].type = "image"
    /\ HasAttribute(doc[sel.start.blk].attrs, "anchorId")
    /\ value = doc[sel.start.blk].attrs["anchorId"]
    /\ value # selAttrs["anchorId"]

\* C9 as stated: the image's attributes are read only when the selection
\* spans exactly that one image.
C9_AsStated ==
    LET source == IF sel.start.off = -1 /\ sel = RangeOn(sel.start.blk)
                  THEN doc[sel.start.blk].attrs ELSE selAttrs
    IN  /\ value = source["anchorId"]
        /\ \A n \in ManualDecorators : decoratorValue[n] = source[n]

\* C10 (amended): UnanchorCommand.execute() called with a caret directly
\* after AnchorCommand.execute( V ) removes no anchorId, because execute has
\* taken anchorId off the selection; called with a caret whose selection
\* carries anchorId (the selection was set at the run again) it leaves no
\* character of the run with anchorId and changes no attribute other than
\* anchorId and the manual decorators.
C10_RoundTripNeedsSelection ==
    [][(UnanchorStep /\ IsCollapsed(sel)) =>
        /\ last.op = "anchor" =>
              \A b \in DOMAIN doc : \A i \in DOMAIN doc[b].text :
                  doc'[b].text[i].attrs["anchorId"] = doc[b].text[i].attrs["anchorId"]
        /\ HasAttribute(selAttrs, "anchorId") =>
              /\ \A i \in DOMAIN doc[sel.start.blk].text :
                     InRunAt(doc, sel.start.blk, sel.start.off, selAttrs["anchorId"], i)
                        => ~HasAttribute(doc'[sel.start.blk].text[i].attrs, "anchorId")
              /\ OtherAttributesKept(doc, doc', [n \in ManualDecorators |-> TRUE])]_vars

\* C10 witness: unanchor ran with the caret execute left behind (anchorId
\* is still held off the selection) and the character before the caret
\* still carries the anchorId.
C10_Witness ==
    /\ last.op = "unanchor" /\ last.branch = "run"
    /\ "anchorId" \in selDirect
    /\ sel.start.off > 0
    /\ doc[sel.start.blk].text[sel.start.off].attrs["anchorId"] = "A"

\* C10 as stated: after execute( V ) with a caret and unanchor directly
\* after it, the character before the caret, which execute( V ) gave
\* anchorId = V, carries no anchorId.
C10_AsStated ==
    [][(UnanchorStep /\ IsCollapsed(sel) /\ last.op = "anchor"
            /\ last.branch \in {"insert", "update"}) =>
        ~HasAttribute(doc'[sel.start.blk].text[sel.start.off].attrs, "anchorId")]_vars

\* Two toggles arguments name the same decorators with the same flags.
SameToggles(t, u) ==
    /\ DOMAIN t = DOMAIN u
    /\ \A n \in DOMAIN t : t[n] = u[n]

\* The step is AnchorCommand.execute called right after a call of it with
\* the same arguments.
SameCallTwice ==
    /\ last.op = "anchor" /\ last'.op = "anchor"
    /\ last'.id = last.id
    /\ SameToggles(last'.t, last.t)

\* C11 (amended): calling execute( V, toggles ) a second time in a row
\* leaves the document as the first call made it when the selection is
\* non-collapsed or V is empty; with a caret and a non-empty V the second
\* call finds the selection without anchorId and inserts the text V once
\* more.
C11_SecondCall ==
    [][SameCallTwice =>
        /\ (~IsCollapsed(sel) \/ last'.id = "") => doc' = doc
        /\ (IsCollapsed(sel) /\ last'.id # "") =>
              TotalChars(doc') = TotalChars(doc) + Len(IdText(last'.id))]_vars

\* C11 witness: execute ran twice in a row with the same id and a toggle on
\* a non-collapsed selection; the selected paragraph text carries the id.
C11_Witness ==
    /\ last.op = "anchor" /\ last.branch = "ranges"
    /\ last.prev.op = "anchor" /\ last.prev.id = last.id
    /\ SameToggles(last.prev.t, last.t)
    /\ DOMAIN last.t # {}
    /\ \E q \in CharsInRange(doc, last.at) :
         /\ doc[q.blk].type = "paragraph"
         /\ doc[q.blk].text[q.off].attrs["anchorId"] = last.id

\* C11 as stated: in every selection state the second call changes
\* nothing.
C11_AsStated ==
    [][SameCallTwice => doc' = doc]_vars

\* The step is execute( V, {d: false} ) on a non-collapsed selection right
\* after execute( V, {d: true} ).
ToggleOnThenOff(d) ==
    /\ last.op = "anchor" /\ last'.op = "anchor"
    /\ ~IsCollapsed(sel)
    /\ last'.id = last.id
    /\ DOMAIN last.t = {d} /\ last.t[d]
    /\ DOMAIN last'.t = {d} /\ ~last'.t[d]

\* C12: on a non-collapsed selection, execute( V, {d: true} ) followed by
\* execute( V, {d: false} ): every updated node (paragraph text and images
\* in the selection) carried anchorId = V and d in between and carries
\* anchorId = V without d afterwards; on every other node neither call's
\* second step changes anything, and no anchorId changes.
C12_DecoratorOnThenOff ==
    [][\A d \in ManualDecorators : ToggleOnThenOff(d) =>
        /\ SameShape(doc, doc')
        /\ \A b \in DOMAIN doc :
            /\ IF b \in ImagesInRange(doc, sel)
               THEN /\ doc[b].attrs["anchorId"] = last.id
                    /\ doc[b].attrs[d] = True
                    /\ doc'[b].attrs = [doc[b].attrs EXCEPT ![d] = Undef]
               ELSE doc'[b].attrs = doc[b].attrs
            /\ \A i \in DOMAIN doc[b].text :
                 IF Pos(b, i) \in CharsInRange(doc, sel) /\ doc[b].type = "paragraph"
                 THEN /\ doc[b].text[i].attrs["anchorId"] = last.id
                      /\ doc[b].text[i].attrs[d] = True
                      /\ doc'[b].text[i].attrs = [doc[b].text[i].attrs EXCEPT ![d] = Undef]
                 ELSE doc'[b].text[i] = doc[b].text[i]]_vars

\* C12 witness: the two calls ran on a selection over an image and the
\* paragraph text after it; image and text carry the id and no decorator.
C12_Witness ==
    /\ last.op = "anchor" /\ last.branch = "ranges"
    /\ last.prev.op = "anchor" /\ last.prev.id = last.id
    /\ DOMAIN last.prev.t = {"anchorIsExternal"} /\ last.prev.t["anchorIsExternal"]
    /\ DOMAIN last.t = {"anchorIsExternal"} /\ ~last.t["anchorIsExternal"]
    /\ \E b \in ImagesInRange(doc, last.at) :
         /\ doc[b].attrs["anchorId"] = last.id
         /\ doc[b].attrs["anchorIsExternal"] = Undef
    /\ \E q \in CharsInRange(doc, last.at) :
         /\ doc[q.blk].type = "paragraph"
         /\ doc[q.blk].text[q.off].attrs["anchorId"] = last.id
         /\ doc[q.blk].text[q.off].attrs["anchorIsExternal"] = Undef

\* C13: in every reachable state of the balloon at most one of actionsView
\* and formView is the visible view, formView is in the balloon only
\* together with actionsView and then above it, and the balloon never
\* threw: no view was added twice and _hideUI removed no absent view.
C13_FormAboveActions ==
    /\ ~(VisibleView(ui) = "actionsView" /\ VisibleView(ui) = "formView")
    /\ isFormInPanel(ui) => ui.stack = <<"actionsView", "formView">>
    /\ ui.stack \in {<<>>, <<"actionsView">>, <<"actionsView", "formView">>}
    /\ ~ui.error

\* The form was above the actions and _hideUI removed both.
C13_Witness ==
    /\ last.from.stack = <<"actionsView", "formView">>
    /\ last.op \in {"esc", "clickOutside"}
    /\ ui.stack = <<>>
    /\ ~ui.error

\* The balloon's states: no view, the actions alone, the form above the
\* actions.
Hidden(u) == u.stack = <<>>

Actions(u) == u.stack = <<"actionsView">>

Form(u) == u.stack = <<"actionsView", "formView">>

\* C14: with the balloon hidden, a pointer click that leaves the selection
\* in an anchor element (a caret inside it, or a range over exactly the
\* whole element) shows the actions alone; a click that leaves no anchor
\* element under the selection adds no view.
C14_ClickShowsActions ==
    [][(last'.op = "click" /\ Hidden(ui)) =>
          IF SelectedAnchorAfter THEN Actions(ui') ELSE Hidden(ui')]_vars

\* A click put the caret inside a run and the hidden balloon shows the
\* actions.
C14_Witness ==
    /\ last.op = "click"
    /\ Hidden(last.from)
    /\ IsCollapsed(sel)
    /\ HasAttribute(selAttrs, "anchorId")
    /\ Actions(ui)

\* C15: with the balloon hidden, a selection change made by a program (no
\* click, no toolbar button, no keystroke) shows no view, also when it
\* puts the selection in an anchored run: the balloon stays hidden.
C15_SelectionAloneShowsNothing ==
    [][(last'.op = "select" /\ Hidden(ui)) => Hidden(ui')]_vars

\* A program put the caret in a run and the balloon is still hidden.
C15_Witness ==
    /\ last.op = "select"
    /\ Hidden(last.from)
    /\ IsCollapsed(sel)
    /\ HasAttribute(selAttrs, "anchorId")
    /\ getSelectedAnchorElement(doc, sel, selAttrs)
    /\ Hidden(ui)

\* C15 as the specification states it: such a selection change shows the
\* actions.
C15_AsStated ==
    [][(last'.op = "select" /\ Hidden(ui) /\ SelectedAnchorAfter) => Actions(ui')]_vars

\* C16: with the balloon hidden, the toolbar button or the anchor keystroke
\* with no anchor element under the selection opens the form at once: the
\* form is the visible view, above the actions, and the 'anchor-ui' marker
\* exists.
C16_ToolbarOpensForm ==
    [][(last'.op \in {"keystroke", "toolbar"} /\ Hidden(ui) /\ ~SelectedAnchor) =>
          /\ Form(ui')
          /\ VisibleView(ui') = "formView"
          /\ ui'.marker]_vars

\* The keystroke met a hidden balloon and a selection in plain text; the
\* form is shown with the marker.
C16_Witness ==
    /\ last.op = "keystroke"
    /\ Hidden(last.from)
    /\ ~HasAttribute(selAttrs, "anchorId")
    /\ ~getSelectedAnchorElement(doc, sel, selAttrs)
    /\ Form(ui)
    /\ ui.marker

SelectedRun(d, s, attrs) ==
    IF IsCollapsed(s) THEN findAttributeRange(d, s.start, "anchorId", attrs["anchorId"])
    ELSE s

\* The step is a selection change met by the update listener with the
\* actions visible on an anchor element.
UpdateInActions ==
    /\ last'.op = "select"
    /\ Actions(ui)
    /\ ui.updating
    /\ SelectedAnchor

Submitted == last'.op = "anchor" /\ last'.branch # "disabled" /\ ~crashed'

Cancelled == last'.op \in {"cancel", "formEsc"}

\* The form is visible, opened while the command had no value, and the
\* command has none now.
FormOnNoValue == Form(ui) /\ ui.openedOn = Undef /\ value = Undef

\* C19: from the form opened with no anchor value, cancel hides the
\* balloon, and so does submit with a collapsed selection; submit with a
\* range leaves the range with anchorId, the command has a value, and the
\* balloon falls back to the actions, unless the end of the range came to
\* lie inside an anchor element (the new run merged with the text after
\* it), which hides the balloon.
C19_SubmitOnRangeShowsActions ==
    [][FormOnNoValue =>
          /\ Cancelled => Hidden(ui')
          /\ (Submitted /\ IsCollapsed(sel)) => Hidden(ui')
          /\ (Submitted /\ ~IsCollapsed(sel)) =>
                 IF ui.updating /\ SelectionParentAfter # SelectionParent
                 THEN Hidden(ui')
                 ELSE IF value' # Undef THEN Actions(ui') ELSE Hidden(ui')]_vars

\* A range of plain text was submitted from the form opened with no value:
\* the actions are visible.
C19_Witness ==
    /\ last.op = "anchor"
    /\ last.branch = "ranges"
    /\ Form(last.from)
    /\ last.from.openedOn = Undef
    /\ ~IsCollapsed(sel)
    /\ value = "A"
    /\ Actions(ui)

\* C19 as the specification states it: submit and cancel both hide the
\* balloon, for a caret and for a range.
C19_AsStated ==
    [][(FormOnNoValue /\ (Submitted \/ Cancelled)) => Hidden(ui')]_vars

\* The form is visible, opened on an anchor value, and the command has a
\* value now.
FormOnValue == Form(ui) /\ ui.openedOn # Undef /\ value # Undef

ImageSelected == \E b \in DOMAIN doc : doc[b].type = "image" /\ sel = RangeOn(b)

\* C20: from the form opened on an anchor, cancel goes back to the
\* actions; so does submit on a selected image and on a fully selected
\* anchor that is still one element afterwards.  Submit with a caret in
\* the run puts the caret after the run without anchorId: the update
\* listener finds no anchor element and the balloon is hidden.  The same
\* happens to a fully selected anchor that the new id merges with its
\* neighbour.
C20_SubmitAtCaretHides ==
    [][FormOnValue =>
          /\ Cancelled => Actions(ui')
          /\ (Submitted /\ IsCollapsed(sel)) => Hidden(ui')
          /\ (Submitted /\ ImageSelected) => Actions(ui')
          /\ (Submitted /\ ~IsCollapsed(sel) /\ SelectedAnchor) =>
                 IF SelectedAnchorAfter \/ ~ui.updating THEN Actions(ui')
                 ELSE Hidden(ui')]_vars

\* The form was submitted with the caret in a run and the balloon is
\* hidden.
C20_Witness ==
    /\ last.op = "anchor"
    /\ last.branch = "update"
    /\ Form(last.from)
    /\ last.from.openedOn # Undef
    /\ IsCollapsed(last.at)
    /\ ~crashed
    /\ Hidden(ui)

\* C20 as the specification states it: submit and cancel both go back to
\* the actions.
C20_AsStated ==
    [][(FormOnValue /\ (Submitted \/ Cancelled)) => Actions(ui')]_vars

Closed(u) == Hidden(u) /\ ~u.marker /\ ~u.updating

\* C22: a mousedown outside the balloon while a view is in it closes
\* everything, from the actions and from the form: no view is in the
\* balloon, the marker is gone and the update listener is off.  A click
\* in the editing root does the same unless it leaves an anchor element
\* under the selection.
C22_ClickOutsideCloses ==
    [][isUIInPanel(ui) =>
          /\ last'.op = "clickOutside" => Closed(ui')
          /\ (last'.op = "click" /\ ~SelectedAnchorAfter) => Closed(ui')]_vars

\* The form was open with the marker and the listener; after the click
\* outside nothing is left.
C22_Witness ==
    /\ last.op = "clickOutside"
    /\ Form(last.from)
    /\ last.from.marker
    /\ last.from.updating
    /\ Closed(ui)

FormClosedByCancel == last'.op \in {"cancel", "formEsc"}

\* C24: after cancel or Esc in the form every manual decorator's value is
\* the decorator attribute of the image the command reads (the selected
\* element or first selected block), or of the selection when that is no
\* image, whatever the switch buttons were set to; the step
\* leaves the document, the selection and its attributes as they were.
C24_CancelRestoresDecorators ==
    [][FormClosedByCancel =>
          /\ \A n \in ManualDecorators :
                decoratorValue'[n] =
                    IF isImageAllowed(doc, FirstSelectedBlock(doc, sel))
                    THEN doc[FirstSelectedBlock(doc, sel)].attrs[n]
                    ELSE selAttrs[n]
          /\ doc' = doc
          /\ sel' = sel
          /\ selAttrs' = selAttrs]_vars

\* The form was cancelled with a switch button away from the model's
\* state, on a selected image: the value is the image's attribute again.
C24_Witness ==
    /\ last.op = "cancel"
    /\ ImageSelected
    /\ \E n \in ManualDecorators :
          /\ ~last.t[n]
          /\ decoratorValue[n] = True
          /\ doc[FirstSelectedBlock(doc, sel)].attrs[n] = True

\* The step pastes a text at the caret: insertContent with the document
\* selection.
Pasted == last'.op = "paste"

\* C25: after an insertContent the selection's attributes lose anchorId
\* and every manual decorator exactly when the selection carries anchorId,
\* a node ends at the caret, that node has anchorId, and the node that
\* starts at the caret, if any, has none; otherwise they are what the
\* selection took from its surroundings.
C25_PostInsertFixer ==
    [][Pasted =>
          LET p == sel'.start
              carried == SurroundingAttributes(doc', sel', gravity')
              before == PositionNodeBefore(doc', p)
              after == PositionNodeAfter(doc', p)
              fixed == /\ carried["anchorId"] # Undef
                       /\ before # 0
                       /\ doc'[p.blk].text[before].attrs["anchorId"] # Undef
                       /\ (after = 0 \/ doc'[p.blk].text[after].attrs["anchorId"] = Undef)
          IN  /\ fixed =>
                    /\ \A k \in AnchorAttributes : selAttrs'[k] = Undef
                    /\ \A k \in AttrNames \ AnchorAttributes : selAttrs'[k] = carried[k]
              /\ ~fixed => selAttrs' = carried]_vars

\* A text with anchorId was pasted before plain text or at the end of the
\* paragraph: the caret is after it and the selection has no anchorId.
C25_Witness ==
    /\ last.op = "paste"
    /\ ~gravity
    /\ PositionNodeBefore(doc, sel.start) # 0
    /\ AttrsAt(doc, sel.start.blk, PositionNodeBefore(doc, sel.start))["anchorId"] = "A"
    /\ selAttrs["anchorId"] = Undef

\* The step is a selection change made with the pointer.
Clicked == last'.op = "click"

\* C26: after a pointer click that leaves a caret carrying anchorId, the
\* selection's attributes have lost anchorId and every manual decorator
\* when the caret is at the start or the end of the run of that anchorId;
\* they are what the selection took from its surroundings when the caret
\* is strictly inside the run or the selection is a range.
C26_ClickAtBoundary ==
    [][Clicked =>
          LET carried == SurroundingAttributes(doc', sel', FALSE)
              p == sel'.start
              run == {i \in 1..Len(doc'[p.blk].text) :
                         InRunAt(doc', p.blk, p.off, carried["anchorId"], i)}
              atStart == \A i \in run : i > p.off
              atEnd == \A i \in run : i <= p.off
          IN  IF IsCollapsed(sel') /\ carried["anchorId"] # Undef /\ (atStart \/ atEnd)
              THEN /\ \A k \in AnchorAttributes : selAttrs'[k] = Undef
                   /\ \A k \in AttrNames \ AnchorAttributes : selAttrs'[k] = carried[k]
              ELSE selAttrs' = carried]_vars

\* A click put the caret at the end of a decorated run: the selection has
\* neither anchorId nor the decorator.
C26_Witness ==
    /\ last.op = "click"
    /\ IsCollapsed(sel)
    /\ sel.start.off = Len(doc[sel.start.blk].text)
    /\ sel.start.off >= 1
    /\ \A k \in AnchorAttributes : doc[sel.start.blk].text[sel.start.off].attrs[k] # Undef
    /\ \A k \in AnchorAttributes : selAttrs[k] = Undef

\* The step types a character over a range that lies inside one run of
\* an anchorId.
TypedOverRun ==
    /\ last'.op = "type"
    /\ ~IsCollapsed(sel)
    /\ \A i \in (sel.start.off + 1)..sel.end.off :
          /\ doc[sel.start.blk].text[i].attrs["anchorId"] # Undef
          /\ doc[sel.start.blk].text[i].attrs["anchorId"] = selAttrs["anchorId"]

\* The typed character carries every attribute the selection had before
\* the step.
TypedWithSelectionAttributes ==
    \A k \in AttrNames :
        selAttrs[k] # Undef => doc'[sel.start.blk].text[sel.start.off + 1].attrs[k] = selAttrs[k]

\* A character typed over a range inside one anchored run carries the
\* attributes the selection had whenever no flag of a delete key press is
\* set as the key is pressed: neither the one of the type-over listener
\* nor the one of the listener that clears after Backspace.
TypeOverKeepsAnchorUnlessDeleted ==
    [][(TypedOverRun /\ ~flags.deletedContent /\ ~flags.hasBackspacePressed)
       => TypedWithSelectionAttributes]_vars

\* C27 as stated: a character typed over a range inside one anchored run
\* carries the attributes the selection had before the deletion, anchorId
\* among them.
C27_AsStated == [][TypedOverRun => TypedWithSelectionAttributes]_vars

\* The step types a character at the caret a Backspace or Delete press
\* left after it had removed a range.
TypedAfterDeletedRange ==
    /\ last.op = "delete"
    /\ ~IsCollapsed(last.at)
    /\ last'.op = "type"

\* C28: after a range was removed by Backspace or Delete, the type-over
\* listener holds no captured attributes, and the character typed next
\* has the attributes of the selection it is typed at, nothing of the
\* removed range added.
C28_DeleteKeyCapturesNothing ==
    [][/\ (last'.op = "delete" /\ ~IsCollapsed(sel)) => ~flags'.captured
       /\ TypedAfterDeletedRange =>
             doc'[sel.start.blk].text[sel.start.off + 1].attrs = selAttrs]_vars

\* The whole of a decorated run that followed plain text was removed by a
\* key press: nothing is captured, the flag is consumed, and the caret
\* left behind is plain.
C28_Witness ==
    /\ last.op = "delete"
    /\ last.at = Range(Pos(1, 1), Pos(1, 2))
    /\ last.carried = "A"
    /\ ~flags.captured
    /\ ~flags.deletedContent
    /\ Len(doc[1].text) = 1
    /\ selAttrs = NoAttrs

\* The step is a Backspace press that removes content while the selection
\* carries no anchorId.
BackspaceOutsideAnchor ==
    /\ last'.op = "delete"
    /\ last'.branch = "backward"
    /\ doc' # doc
    /\ selAttrs["anchorId"] = Undef

\* C29: when Backspace removes content and the selection carried no
\* anchorId (the caret was after a run, not inside it), the selection has
\* neither anchorId nor a manual decorator once the change is complete,
\* also when the caret is left at the end of a run.
C29_BackspaceAfterAnchorClears ==
    [][BackspaceOutsideAnchor => \A k \in AnchorAttributes : selAttrs'[k] = Undef]_vars

\* Backspace removed the plain character after a decorated run: the caret
\* is at the end of the run, the gravity is not overridden, and the
\* selection has neither anchorId nor the decorator.
C29_Witness ==
    /\ last.op = "delete"
    /\ last.branch = "backward"
    /\ last.carried = Undef
    /\ IsCollapsed(last.at)
    /\ sel = Caret(Pos(1, last.at.start.off - 1))
    /\ ~gravity
    /\ sel.start.off >= 1
    /\ \A k \in AnchorAttributes : doc[1].text[sel.start.off].attrs[k] # Undef
    /\ \A k \in AnchorAttributes : selAttrs[k] = Undef

\* The attributes of a node or of the selection hold nothing an automatic
\* decorator contributes.
NothingAutomatic(attrs) == \A k \in AutomaticAttributes : attrs[k] = Undef

\* C30: whatever calls of the two commands were made with toggles of the
\* registered manual decorators, no block, no character and not the
\* selection carries target, rel or any other attribute the automatic
\* decorators render.
C30_AutomaticNeverInModel ==
    /\ NothingAutomatic(selAttrs)
    /\ \A b \in DOMAIN doc :
          /\ NothingAutomatic(doc[b].attrs)
          /\ \A i \in DOMAIN doc[b].text : NothingAutomatic(doc[b].text[i].attrs)

\* execute made a run with an id the external rule accepts: the view
\* element is rendered with target and rel, the character has neither.
C30_Witness ==
    /\ last.op = "anchor"
    /\ last.id = "//"
    /\ \E i \in DOMAIN doc[1].text :
          /\ doc[1].text[i].attrs["anchorId"] = "//"
          /\ RenderedAttributes(doc[1].text[i].attrs["anchorId"])["target"] = "_blank"
          /\ RenderedAttributes(doc[1].text[i].attrs["anchorId"])["rel"] = "noopener noreferrer"
          /\ NothingAutomatic(doc[1].text[i].attrs)

\* Backspace removed content while the caret carried anchorId and was inside
\* the run of that id: strictly inside, or at one of its two ends.
BackspaceInsideAnchor ==
    /\ last'.op = "delete"
    /\ last'.branch = "backward"
    /\ doc' # doc
    /\ IsCollapsed(sel)
    /\ selAttrs["anchorId"] # Undef
    /\ \E r \in {findAttributeRange(doc, sel.start, "anchorId", selAttrs["anchorId"])} :
          /\ ~IsCollapsed(r)
          /\ PosLeq(r.start, sel.start)
          /\ PosLeq(sel.start, r.end)

\* The selection has the attributes its position gives it: nothing was
\* removed from them.
AnchorAttributesUntouched ==
    \A k \in AnchorAttributes :
        selAttrs'[k] = SurroundingAttributes(doc', sel', gravity')[k]

\* C31: when Backspace removes content while the caret carries anchorId, of
\* any value, and is inside the run of that id (strictly inside, or at its
\* start or its end), the selection keeps the anchorId and the manual
\* decorators its position gives it once the change is complete.
C31_AsStated == [][BackspaceInsideAnchor => AnchorAttributesUntouched]_vars

\* The part of C31 the listeners implement: a caret carrying a non-empty
\* anchorId, strictly inside the run or at its end.
BackspaceInsideAnchorKept ==
    [][(/\ BackspaceInsideAnchor
        /\ selAttrs["anchorId"] # ""
        /\ findAttributeRange(doc, sel.start, "anchorId", selAttrs["anchorId"]).start # sel.start)
       => AnchorAttributesUntouched]_vars

\* A step whose deleteContent no Backspace press triggered: the forward
\* Delete key, a typed character (over a selection or at a caret), a cut.
DeletedWithoutBackspace ==
    \/ last'.op = "delete" /\ last'.branch = "forward" /\ doc' # doc
    \/ last'.op = "type"
    \/ last'.op = "cut"

\* C32: a deleteContent triggered by the forward Delete key, by typing or
\* by cut leaves the selection the anchorId and the manual decorators its
\* position gives it, whatever key presses came before, also a Backspace
\* press that produced no deleteContent.
C32_AsStated == [][DeletedWithoutBackspace => AnchorAttributesUntouched]_vars

\* The part of C32 that holds: the same steps when no Backspace press is
\* still waiting for its deleteContent.
OnlyBackspaceClears ==
    [][(DeletedWithoutBackspace /\ (~flags.hasBackspacePressed \/ last'.op = "delete"))
       => AnchorAttributesUntouched]_vars

\* The selection was changed by the keyboard.
KeyboardSelectionChange == last'.op = "selectionChange"

\* C33: a selection change made by the keyboard leaves the selection the
\* anchorId and the manual decorators its position gives it, also when
\* it lands at the boundary of a run after a mousedown that changed no
\* selection; and every selection change leaves the clicked flag unset.
C33_AsStated ==
    [][KeyboardSelectionChange => (AnchorAttributesUntouched /\ ~flags'.clicked)]_vars

\* The part of C33 that holds: a keyboard selection change met with the
\* flag unset clears nothing, and one selection change of either origin
\* consumes the flag.
ClickedConsumedOnce ==
    [][/\ (KeyboardSelectionChange /\ ~flags.clicked) => AnchorAttributesUntouched
       /\ (KeyboardSelectionChange \/ Clicked) => ~flags'.clicked]_vars

\* No Backspace or Delete press came between the step before and the
\* character typed now.
NoDeleteKeyJustBefore == last.op # "delete"

\* C34: when a character is typed over a selection inside one anchored
\* run and the step before was no Backspace or Delete press, the typed
\* character carries the anchorId and the manual decorators of the
\* selection, whatever key presses came earlier, also one made with a
\* collapsed selection.
C34_AsStated ==
    [][(TypedOverRun /\ NoDeleteKeyJustBefore) => TypedWithSelectionAttributes]_vars

\* Backspace removed content and the high priority listener found no
\* reason to preserve the attributes: the removal is due.
BackspaceFixupApplies ==
    /\ last'.op = "delete"
    /\ last'.branch = "backward"
    /\ doc' # doc
    /\ ~preserveOnDeleteContent(Editor).shouldPreserveAttributes

\* C35: the removal the post-delete fixup makes is the last change of the
\* selection's attributes in the step: it runs after the block of the
\* deletion, in which the command sets the selection and the selection
\* takes its attributes anew, so the anchorId and the manual decorators
\* are off the final selection and stay removed from it.
C35_RemovalAfterChangeBlock ==
    [][BackspaceFixupApplies =>
          \A k \in AnchorAttributes : selAttrs'[k] = Undef /\ k \in selDirect']_vars

\* Backspace left the caret where its position gives it an anchorId (at
\* the end of a run, or before one with nothing in front): the selection
\* set by the command took the attribute, the removal made afterwards
\* took it off.
C35_Witness ==
    /\ last.op = "delete"
    /\ last.branch = "backward"
    /\ IsCollapsed(sel)
    /\ SurroundingAttributes(doc, sel, gravity)["anchorId"] = "A"
    /\ selAttrs["anchorId"] = Undef
    /\ AnchorAttributes \subseteq selDirect

\* A character was typed over a range inside one anchored run with no
\* delete key flag pending, and the caret is left at the tail of the
\* run: the text after it, if any, has no anchorId.
TypedOverRunToTail ==
    /\ TypedOverRun
    /\ ~flags.deletedContent
    /\ ~flags.hasBackspacePressed
    /\ ~HasAttribute(AttrsAt(doc', sel'.start.blk, PositionNodeAfter(doc', sel'.start)), "anchorId")

TypedOutsideRun ==
    /\ last'.op = "type"
    /\ last.op = "selectionChange"
    /\ IsCollapsed(sel)
    /\ selAttrs["anchorId"] = Undef

\* The character typed at the caret has no anchorId.
TypedWithoutAnchor ==
    doc'[sel.start.blk].text[sel.start.off + 1].attrs["anchorId"] = Undef

\* C39: a character typed at a caret that was moved to a place without
\* anchorId never receives an anchorId captured from a selection typed
\* over before, whatever keys were pressed, whatever was deleted and
\* inserted; and a typed character leaves nothing captured behind.
C39_AsStated ==
    [][(TypedOutsideRun => TypedWithoutAnchor)
       /\ (last'.op = "type" => ~flags'.captured)]_vars

\* The part of C39 that holds: the insertContent of a typed character
\* uses up what was captured, and a character typed outside a run with
\* nothing captured has no anchorId.
CapturedUsedOnce ==
    [][((TypedOutsideRun /\ ~flags.captured) => TypedWithoutAnchor)
       /\ (last'.op = "type" => ~flags'.captured)]_vars

\* C37: whenever actionsView or formView is in the balloon the handler
\* of ui#update is registered, and whenever the balloon is empty it is
\* not.
C37_AsStated ==
    /\ isUIInPanel(ui) => ui.updating
    /\ Hidden(ui) => ~ui.updating

\* The part of C37 that holds: an empty balloon has no handler, and a
\* balloon filled by _showUI (click, keystroke, toolbar button, the
\* anchorImage button on an image without anchor) has it: only the
\* anchorImage button fills the balloon and registers nothing.
UpdatingWhenShown ==
    [][/\ Hidden(ui') => ~ui'.updating
       /\ (Hidden(ui) /\ ~Hidden(ui') /\ ~ui'.updating) =>
             \/ ui'.error
             \/ last'.op = "anchorImage" /\ isImageAnchored(doc, sel, ui)]_vars

\* C38: the marker of the fake visual selection exists only while
\* formView is in the balloon.
C38_MarkerOnlyWithForm == ~isFormInPanel(ui) => ~ui.marker

\* The form was opened over a selection without anchor, with the marker,
\* and submitted: the form is removed, the actions stay in the balloon,
\* and the marker is gone.
C38_Witness ==
    /\ last.op = "anchor"
    /\ last.from.marker
    /\ isFormInPanel(last.from)
    /\ Actions(ui)
    /\ ~ui.marker

\* UnanchorCommand.execute() was called with a caret that carries no
\* anchorId.
UnanchorAtPlainCaret ==
    /\ UnanchorStep
    /\ IsCollapsed(sel)
    /\ selAttrs["anchorId"] = Undef

\* C40: UnanchorCommand.execute() with a caret that carries no anchorId
\* leaves every node with all of its attributes.
C40_AsStated == [][UnanchorAtPlainCaret => doc' = doc]_vars

\* The part of C40 that holds: the call leaves the shape of the document,
\* the blocks' attributes, and on every character all attributes but the
\* manual decorators; a decorator changes only on text without anchorId.
UnanchorAtPlainCaretKeepsRest ==
    [][UnanchorAtPlainCaret =>
          /\ SameShape(doc, doc')
          /\ \A b \in DOMAIN doc :
                /\ doc'[b].attrs = doc[b].attrs
                /\ \A i \in DOMAIN doc[b].text :
                      /\ \A k \in AttrNames \ ManualDecorators :
                            doc'[b].text[i].attrs[k] = doc[b].text[i].attrs[k]
                      /\ doc[b].text[i].attrs["anchorId"] # Undef =>
                            doc'[b].text[i] = doc[b].text[i]]_vars

====
